---- MODULE Spec2Model ----
(***************************************************************************)
(* A model of the R-tree of maja42/rtree: the node heap, Insert, BulkLoad  *)
(* (OMT build, root join, STLT insertion), Remove (depth-first traversal   *)
(* and condense) and the queries of query.go.                              *)
(*                                                                         *)
(* Nodes live in a heap (a function from node ids to node records), as    *)
(* the Go code links them by pointers; id 0 is the nil pointer.  Items are *)
(* identities 1..Len(ItemRect) and bboxFn / Item.Bounds() looks up their   *)
(* rectangle.  Coordinates are small integers; +Inf and -Inf of float32    *)
(* are the integers Inf and -Inf, larger than every coordinate, area and   *)
(* squared distance of the model.                                          *)
(***************************************************************************)
EXTENDS Integers, Sequences, FiniteSets, TLC

VARIABLES nodes, root, added, removedHits, rt, omt, call

vars == <<nodes, root, added, removedHits, rt, omt, call>>

\* ------------------------------------------------------------ parameters

\* New(boundsFunc, 4): maxEntries = Maxi(4, 4), minEntries = Maxi(2, ceil(1.6))
maxEntries == 4
minEntries == 2

\* vmath.Infinity
Inf == 1000000

\* the nil node pointer
nil == 0

Rect(x1, y1, x2, y2) == [Min |-> <<x1, y1>>, Max |-> <<x2, y2>>]

noBounds == [Min |-> <<Inf, Inf>>, Max |-> <<-Inf, -Inf>>]

\* ------------------------------------------------------------ rectangles

\* The value of e, computed once, as the argument of F: a local variable.
With(e, F(_)) == CHOOSE r \in {F(x) : x \in {e}} : TRUE

MinI(a, b) == IF a < b THEN a ELSE b
MaxI(a, b) == IF a > b THEN a ELSE b

\* vmath.Rectf.Merge: the smallest rectangle that contains both
Merge(a, b) ==
    [Min |-> <<MinI(a.Min[1], b.Min[1]), MinI(a.Min[2], b.Min[2])>>,
     Max |-> <<MaxI(a.Max[1], b.Max[1]), MaxI(a.Max[2], b.Max[2])>>]

\* vmath.Rectf.Area: width * height
Area(r) == (r.Max[1] - r.Min[1]) * (r.Max[2] - r.Min[2])

\* vmath.Rectf.Intersects: rectangles that only touch do not intersect
Intersects(a, b) ==
    /\ a.Min[1] < b.Max[1]
    /\ a.Max[1] > b.Min[1]
    /\ a.Max[2] > b.Min[2]
    /\ a.Min[2] < b.Max[2]

\* vmath.Rectf.ContainsRectf: a contains b, borders included
ContainsRectf(a, b) ==
    /\ a.Min[1] <= b.Min[1]
    /\ a.Max[1] >= b.Max[1]
    /\ a.Min[2] <= b.Min[2]
    /\ a.Max[2] >= b.Max[2]

\* vmath.Rectf.Normalize: min <= max on both axes
Normalize(r) ==
    [Min |-> <<MinI(r.Min[1], r.Max[1]), MinI(r.Min[2], r.Max[2])>>,
     Max |-> <<MaxI(r.Min[1], r.Max[1]), MaxI(r.Min[2], r.Max[2])>>]

\* vmath.Rectf.SquarePointDistance: 0 inside the rectangle
SquarePointDistance(r, pos) ==
    LET dx == MaxI(MaxI(r.Min[1] - pos[1], 0), pos[1] - r.Max[1])
        dy == MaxI(MaxI(r.Min[2] - pos[2], 0), pos[2] - r.Max[2])
    IN  dx * dx + dy * dy

extend(a, b) == Merge(a, b)

intersectionArea(a, b) == Area(Merge(a, b))

enlargedArea(bbox, newChild) ==
    LET width  == MaxI(newChild.Max[1], bbox.Max[1]) - MinI(newChild.Min[1], bbox.Min[1])
        height == MaxI(newChild.Max[2], bbox.Max[2]) - MinI(newChild.Min[2], bbox.Min[2])
    IN  width * height

bboxMargin(bbox) == (bbox.Max[1] - bbox.Min[1]) + (bbox.Max[2] - bbox.Min[2])

\* ------------------------------------------------------------ items

\* The items of the model and the rectangle boundsFunc gives for each:
\* points on the x axis, points off it, and proper rectangles.
ItemRect ==
    << Rect(0, 0, 0, 0), Rect(1, 0, 1, 0), Rect(8, 0, 8, 0), Rect(9, 0, 9, 0),
       Rect(10, 0, 10, 0),
       Rect(4, 2, 6, 5), Rect(0, 4, 2, 6), Rect(7, 1, 9, 2), Rect(5, 0, 5, 0),
       Rect(3, 6, 4, 7),
       Rect(3, 0, 4, 1), Rect(1, 1, 3, 3),
       Rect(6, 7, 6, 7), Rect(8, 6, 9, 7) >>

Items == 1..Len(ItemRect)

bboxFn(item) == ItemRect[item]

\* ------------------------------------------------------------ nodes

newNode ==
    [children |-> <<>>, items |-> <<>>, height |-> 1, leaf |-> TRUE, bounds |-> noBounds]

\* The address of a newly allocated node: the smallest id not in use.
FreshId(ns) ==
    CHOOSE n \in 1..(Cardinality(DOMAIN ns) + 1) :
        n \notin DOMAIN ns /\ \A m \in 1..(n - 1) : m \in DOMAIN ns

entryCount(nod) == Len(nod.children) + Len(nod.items)

\* bounds of the entry at 1-based position i: an item's or a child's
EntryBounds(ns, nod, i) ==
    IF nod.leaf THEN bboxFn(nod.items[i]) ELSE ns[nod.children[i]].bounds

\* calcSubBBox: the bbox of the entries in the Go slice [start:end]
RECURSIVE calcSubBBox(_, _, _, _)
calcSubBBox(ns, nod, start, end) ==
    IF start >= end THEN noBounds
    ELSE extend(calcSubBBox(ns, nod, start, end - 1), EntryBounds(ns, nod, end))

calcBBox(ns, nod) == calcSubBBox(ns, nod, 0, entryCount(nod))

\* sort.Sort on at most 12 elements is an insertion sort: stable
StableSort(s, key) ==
    LET n == Len(s)
        rank(i) == Cardinality({j \in 1..n :
                       \/ key[j] < key[i]
                       \/ key[j] = key[i] /\ j < i}) + 1
    IN  [p \in 1..n |-> s[CHOOSE i \in 1..n : rank(i) = p]]

\* sort.Sort(itemsByMinX / itemsByMinY / nodesByMinX / nodesByMinY), axis 1 = x
sortEntries(ns, nod, axis) ==
    LET itemKey == [i \in 1..Len(nod.items) |-> bboxFn(nod.items[i]).Min[axis]]
        nodeKey == [i \in 1..Len(nod.children) |-> ns[nod.children[i]].bounds.Min[axis]]
    IN  IF nod.leaf THEN [nod EXCEPT !.items = StableSort(@, itemKey)]
        ELSE [nod EXCEPT !.children = StableSort(@, nodeKey)]

\* ------------------------------------------------------------ split

\* the two loops of allDistMargin: margins of the growing left and right bbox
RECURSIVE leftMargins(_, _, _, _)
leftMargins(ns, nod, i, last) ==
    IF i > last THEN 0
    ELSE bboxMargin(calcSubBBox(ns, nod, 0, i + 1)) + leftMargins(ns, nod, i + 1, last)

RECURSIVE rightMargins(_, _, _, _, _)
rightMargins(ns, nod, i, first, max) ==
    IF i < first THEN 0
    ELSE bboxMargin(calcSubBBox(ns, nod, i, max)) + rightMargins(ns, nod, i - 1, first, max)

allDistMargin(ns, nod, min, max) ==
    bboxMargin(calcSubBBox(ns, nod, 0, min))
        + bboxMargin(calcSubBBox(ns, nod, max - min, max))
        + leftMargins(ns, nod, min, max - min - 1)
        + rightMargins(ns, nod, max - min - 1, min, max)

\* chooseSplitAxis: the node with its entries sorted by the best axis
chooseSplitAxis(ns, nod, min, max) ==
    With(sortEntries(ns, nod, 1), LAMBDA byX :
    With(allDistMargin(ns, byX, min, max), LAMBDA xMargin :
    With(sortEntries(ns, byX, 2), LAMBDA byY :
    With(allDistMargin(ns, byY, min, max), LAMBDA yMargin :
        IF xMargin < yMargin THEN sortEntries(ns, byY, 1) ELSE byY))))

\* the loop of chooseSplitIndex from candidate i on
RECURSIVE splitIndexLoop(_, _, _, _, _, _, _, _)
splitIndexLoop(ns, nod, min, count, i, minOverlap, minArea, idx) ==
    IF i > count - min THEN idx
    ELSE With(calcSubBBox(ns, nod, 0, i), LAMBDA bbox1 :
         With(calcSubBBox(ns, nod, i, count), LAMBDA bbox2 :
         With(intersectionArea(bbox1, bbox2), LAMBDA overlap :
         With(Area(bbox1) + Area(bbox2), LAMBDA area :
             IF overlap < minOverlap
             THEN With(MinI(area, minArea), LAMBDA m :
                      splitIndexLoop(ns, nod, min, count, i + 1, overlap, m, i))
             ELSE IF overlap = minOverlap /\ area < minArea
             THEN splitIndexLoop(ns, nod, min, count, i + 1, minOverlap, area, i)
             ELSE splitIndexLoop(ns, nod, min, count, i + 1, minOverlap, minArea, idx)))))

\* a chooseSplitIndex that returns its default index
chooseSplitIndexDefault(ns, nod, min, count) == count - min

\* a chooseSplitIndex that leaves a single entry to the new sibling
chooseSplitIndexLast(ns, nod, min, count) == count - 1

\* chooseSplitIndex: the index at which the sorted entries are split
chooseSplitIndex(ns, nod, min, count) ==
    splitIndexLoop(ns, nod, min, count, min, Inf, Inf, count - min)

\* splitRoot: a new root, one level higher, over a and b
splitRootSameHeight(T, a, b) ==
    With(FreshId(T.nodes), LAMBDA id :
    With([newNode EXCEPT !.children = <<a, b>>, !.height = T.nodes[T.root].height,
                         !.leaf = FALSE], LAMBDA r0 :
    With(calcBBox(T.nodes, r0), LAMBDA bb :
        [nodes |-> T.nodes @@ (id :> [r0 EXCEPT !.bounds = bb]), root |-> id])))

\* splitRoot puts a new root above the old root and its new sibling
splitRoot(T, a, b) ==
    With(FreshId(T.nodes), LAMBDA id :
    With([newNode EXCEPT !.children = <<a, b>>, !.height = T.nodes[T.root].height + 1,
                         !.leaf = FALSE], LAMBDA r0 :
    With(calcBBox(T.nodes, r0), LAMBDA bb :
        [nodes |-> T.nodes @@ (id :> [r0 EXCEPT !.bounds = bb]), root |-> id])))

\* split the overflowed node insertPath[level] (level counts from 0) into two
split(T, insertPath, level) ==
    With(insertPath[level + 1], LAMBDA id :
    With(entryCount(T.nodes[id]), LAMBDA max :
    With(chooseSplitAxis(T.nodes, T.nodes[id], minEntries, max), LAMBDA sorted :
    With(chooseSplitIndex(T.nodes, sorted, minEntries, max), LAMBDA splitIndex :
    With(FreshId(T.nodes), LAMBDA newId :
    With([newNode EXCEPT !.height = sorted.height, !.leaf = sorted.leaf,
              !.items = SubSeq(sorted.items, splitIndex + 1, Len(sorted.items)),
              !.children = SubSeq(sorted.children, splitIndex + 1, Len(sorted.children))],
         LAMBDA new0 :
    With([sorted EXCEPT !.items = SubSeq(@, 1, MinI(splitIndex, Len(@))),
                        !.children = SubSeq(@, 1, MinI(splitIndex, Len(@)))],
         LAMBDA old0 :
    With([old0 EXCEPT !.bounds = calcBBox(T.nodes, old0)], LAMBDA old1 :
    With([new0 EXCEPT !.bounds = calcBBox(T.nodes, new0)], LAMBDA new1 :
    With([T.nodes EXCEPT ![id] = old1] @@ (newId :> new1), LAMBDA ns :
        IF level > 0
        THEN [T EXCEPT !.nodes = [ns EXCEPT ![insertPath[level]].children = Append(@, newId)]]
        ELSE With([T EXCEPT !.nodes = ns], LAMBDA T1 : splitRoot(T1, id, newId))))))))))))

\* splitNodes: split all overflowing nodes along the insertion path, bottom-up
RECURSIVE splitNodes(_, _, _)
splitNodes(T, insertPath, level) ==
    IF level < 0 THEN T
    ELSE IF entryCount(T.nodes[insertPath[level + 1]]) <= maxEntries THEN T
    ELSE With(split(T, insertPath, level), LAMBDA T1 :
             splitNodes(T1, insertPath, level - 1))

\* the bounding boxes along the insertion path left as they are
adjustParentBBoxesNone(T, insertPath, bbox, level) == T

\* adjustParentBBoxes: add bbox to all bounding boxes along the insertion path
RECURSIVE adjustParentBBoxes(_, _, _, _)
adjustParentBBoxes(T, insertPath, bbox, level) ==
    IF level < 0 THEN T
    ELSE With([T EXCEPT !.nodes[insertPath[level + 1]].bounds = extend(@, bbox)],
              LAMBDA T1 : adjustParentBBoxes(T1, insertPath, bbox, level - 1))

\* ------------------------------------------------------------ insertion

\* the inner loop of chooseSubtree over the children from position k on
RECURSIVE chooseChild(_, _, _, _, _, _, _)
chooseChild(ns, bbox, children, k, minArea, minEnlargement, nextSubNode) ==
    IF k > Len(children) THEN nextSubNode
    ELSE With(children[k], LAMBDA child :
         With(Area(ns[child].bounds), LAMBDA area :
         With(enlargedArea(bbox, ns[child].bounds) - area, LAMBDA enlargement :
             IF enlargement < minEnlargement
             THEN With(MinI(minArea, area), LAMBDA m :
                      chooseChild(ns, bbox, children, k + 1, m, enlargement, child))
             ELSE IF enlargement = minEnlargement /\ area < minArea
             THEN chooseChild(ns, bbox, children, k + 1, area, minEnlargement, child)
             ELSE chooseChild(ns, bbox, children, k + 1, minArea, minEnlargement,
                              nextSubNode))))

\* the outer loop of chooseSubtree: the path so far and the node reached
RECURSIVE chooseSubtreeLoop(_, _, _, _, _)
chooseSubtreeLoop(ns, bbox, level, path, subNode) ==
    With(Append(path, subNode), LAMBDA path1 :
        IF ns[subNode].leaf \/ Len(path1) - 1 = level
        THEN [node |-> subNode, path |-> path1]
        ELSE With(chooseChild(ns, bbox, ns[subNode].children, 1, Inf, Inf, nil),
                  LAMBDA nextSubNode : chooseSubtreeLoop(ns, bbox, level, path1, nextSubNode)))

\* chooseSubtree: the node best suited for the new entry and the path to it
chooseSubtree(T, bbox, level) == chooseSubtreeLoop(T.nodes, bbox, level, <<>>, T.root)

\* Insert adds a single item
Insert(T, item) ==
    With(bboxFn(item), LAMBDA bbox :
    With(T.nodes[T.root].height - 1, LAMBDA level :
    With(chooseSubtree(T, bbox, level), LAMBDA cs :
    With([T EXCEPT !.nodes[cs.node].items = Append(@, item),
                   !.nodes[cs.node].bounds = extend(@, bbox)], LAMBDA T1 :
    With(splitNodes(T1, cs.path, level), LAMBDA T2 :
        adjustParentBBoxes(T2, cs.path, bbox, level))))))

\* insertNode inserts the node id (and its subtree) at the given level
insertNode(T, id, level) ==
    With(T.nodes[id].bounds, LAMBDA bbox :
    With(chooseSubtree(T, bbox, level), LAMBDA cs :
    With([T EXCEPT !.nodes[cs.node].children = Append(@, id),
                   !.nodes[cs.node].bounds = extend(@, bbox)], LAMBDA T1 :
    With(splitNodes(T1, cs.path, level), LAMBDA T2 :
        adjustParentBBoxes(T2, cs.path, bbox, level)))))

\* ------------------------------------------------------------ removal

\* Clear: the root becomes a fresh empty leaf
Clear(T) ==
    With(FreshId(T.nodes), LAMBDA id : [nodes |-> T.nodes @@ (id :> newNode), root |-> id])

\* position of the first TRUE of a sequence of booleans, 0 if none
FirstIndex(match) ==
    IF \E i \in 1..Len(match) : match[i]
    THEN CHOOSE i \in 1..Len(match) : match[i] /\ \A j \in 1..(i - 1) : ~match[j]
    ELSE 0

\* a splice that drops the tail with the entry
RemoveAtAndAfter(s, i) == SubSeq(s, 1, i - 1)

\* append(s[:idx], s[idx+1:]...): s without its entry at 1-based position i
RemoveAt(s, i) == SubSeq(s, 1, i - 1) \o SubSeq(s, i + 1, Len(s))

\* EqualsFunc: nil compares identities; "bounds" accepts a copy with the same bounds
Equals(equalsFn, a, b) ==
    IF equalsFn = "nil" THEN a = b ELSE bboxFn(a) = bboxFn(b)

\* a removeChildItem that never looks at the first item of the leaf
removeChildItemIdxSkipFirst(nod, child, equalsFn) ==
    FirstIndex([i \in 1..Len(nod.items) |->
                   i > 1 /\ Equals(equalsFn, child, nod.items[i])])

\* a removeChildItem that removes the last item of the leaf when none matches
removeChildItemIdxOrLast(nod, child, equalsFn) ==
    LET found == [i \in 1..Len(nod.items) |-> Equals(equalsFn, child, nod.items[i])]
    IN  IF FirstIndex(found) = 0 THEN Len(nod.items) ELSE FirstIndex(found)

\* removeChildItem: the index of the item removed from the leaf, 0 if not found
removeChildItemIdx(nod, child, equalsFn) ==
    FirstIndex([i \in 1..Len(nod.items) |-> Equals(equalsFn, child, nod.items[i])])

\* a removeChildNode that finds no child to remove
removeChildNodeNever(parentNode, child) == parentNode

\* removeChildNode removes a child node from its direct parent
removeChildNode(parentNode, child) ==
    LET same == [i \in 1..Len(parentNode.children) |-> parentNode.children[i] = child]
    IN  With(FirstIndex(same), LAMBDA idx :
            IF idx = 0 THEN parentNode
            ELSE [parentNode EXCEPT !.children = RemoveAt(@, idx)])

\* a condense that keeps the empty nodes in the tree
RECURSIVE condenseKeepEmpty(_, _, _)
condenseKeepEmpty(T, path, i) ==
    IF i < 1 THEN T
    ELSE With(path[i], LAMBDA item :
         With([T EXCEPT !.nodes[item].bounds = calcBBox(T.nodes, T.nodes[item])],
              LAMBDA T1 : condenseKeepEmpty(T1, path, i - 1)))

\* a condense that does not clear the tree when the root runs empty
RECURSIVE condenseNoClear(_, _, _)
condenseNoClear(T, path, i) ==
    IF i < 1 THEN T
    ELSE With(path[i], LAMBDA item :
             IF entryCount(T.nodes[item]) = 0
             THEN IF i > 1
                  THEN With([T EXCEPT !.nodes[path[i - 1]] = removeChildNode(@, item)],
                            LAMBDA T1 : condenseNoClear(T1, path, i - 1))
                  ELSE T
             ELSE With([T EXCEPT !.nodes[item].bounds = calcBBox(T.nodes, T.nodes[item])],
                       LAMBDA T1 : condenseNoClear(T1, path, i - 1)))

\* condense: remove the empty nodes of the path and update the bounding boxes
RECURSIVE condense(_, _, _)
condense(T, path, i) ==
    IF i < 1 THEN T
    ELSE With(path[i], LAMBDA item :
             IF entryCount(T.nodes[item]) = 0
             THEN IF i > 1
                  THEN With([T EXCEPT !.nodes[path[i - 1]] = removeChildNode(@, item)],
                            LAMBDA T1 : condense(T1, path, i - 1))
                  ELSE With(Clear(T), LAMBDA T1 : condense(T1, path, i - 1))
             ELSE With([T EXCEPT !.nodes[item].bounds = calcBBox(T.nodes, T.nodes[item])],
                       LAMBDA T1 : condense(T1, path, i - 1)))

\* go up: the locals of Remove after popping the path
goUp(T, st) ==
    With(SubSeq(st.path, 1, Len(st.path) - 1), LAMBDA path1 :
        [st EXCEPT !.nod = st.path[Len(st.path)],
                   !.path = path1,
                   !.parent = IF Len(path1) > 1 THEN path1[Len(path1)] ELSE T.root,
                   !.childIdx = st.childIndexes[Len(st.childIndexes)],
                   !.childIndexes = SubSeq(@, 1, Len(@) - 1),
                   !.goingUp = TRUE])

\* a pass that goes right around the end of the child list to its start
removeIterAround(T, item, equalsFn, st) ==
    LET up == IF st.nod = nil THEN goUp(T, st) ELSE st
        nod == T.nodes[up.nod]
        sib == T.nodes[up.parent].children
        idx == (up.childIdx + 1) % Len(sib)
    IN  [hit |-> IF nod.leaf THEN removeChildItemIdx(nod, item, equalsFn) ELSE 0,
         up |-> up,
         st |-> IF ~up.goingUp /\ ~nod.leaf /\ ContainsRectf(nod.bounds, bboxFn(item))
                THEN [up EXCEPT !.path = Append(@, up.nod),
                                !.childIndexes = Append(@, up.childIdx),
                                !.childIdx = 0,
                                !.parent = up.nod,
                                !.nod = nod.children[1]]
                ELSE IF up.parent # nil
                THEN [up EXCEPT !.childIdx = idx,
                                !.nod = sib[idx + 1],
                                !.goingUp = FALSE]
                ELSE [up EXCEPT !.nod = nil]]

\* One pass through the body of the loop of Remove, from the locals st (nod,
\* path, childIndexes, parent, childIdx, goingUp) at its head: the index of
\* the item found in the leaf (0 if none), the locals after going up, and the
\* locals at the end of the body.
removeIter(T, item, equalsFn, st) ==
    LET up == IF st.nod = nil THEN goUp(T, st) ELSE st
        nod == T.nodes[up.nod]
        idx == up.childIdx + 1
        sib == T.nodes[up.parent].children
    IN  [hit |-> IF nod.leaf THEN removeChildItemIdx(nod, item, equalsFn) ELSE 0,
         up |-> up,
         st |-> IF ~up.goingUp /\ ~nod.leaf /\ ContainsRectf(nod.bounds, bboxFn(item))
                THEN \* go down
                     [up EXCEPT !.path = Append(@, up.nod),
                                !.childIndexes = Append(@, up.childIdx),
                                !.childIdx = 0,
                                !.parent = up.nod,
                                !.nod = nod.children[1]]
                ELSE IF up.parent # nil
                THEN \* go right
                     [up EXCEPT !.childIdx = idx,
                                !.nod = IF idx < Len(sib) THEN sib[idx + 1] ELSE nil,
                                !.goingUp = FALSE]
                ELSE \* nothing found
                     [up EXCEPT !.nod = nil]]

\* The loop of Remove: st holds the locals at the head of the loop.
RECURSIVE RemoveLoop(_, _, _, _)
RemoveLoop(T, item, equalsFn, st) ==
    IF st.nod = nil /\ Len(st.path) = 0 THEN T
    ELSE With(removeIter(T, item, equalsFn, st), LAMBDA it :
             IF it.hit > 0
             THEN condense([T EXCEPT !.nodes[it.up.nod].items = RemoveAt(@, it.hit)],
                           Append(it.up.path, it.up.nod), Len(it.up.path) + 1)
             ELSE RemoveLoop(T, item, equalsFn, it.st))

\* Remove the given item from the tree
Remove(T, item, equalsFn) ==
    With([nod |-> T.root, path |-> <<>>, childIndexes |-> <<>>, parent |-> nil,
          childIdx |-> 0, goingUp |-> FALSE],
         LAMBDA st : RemoveLoop(T, item, equalsFn, st))

\* ------------------------------------------------------------ quickselect

Swap(a, i, j) == [a EXCEPT ![i + 1] = a[j + 1], ![j + 1] = a[i + 1]]

\* a.Less(i, j) of itemsByMinX (axis 1) and itemsByMinY (axis 2), 0-based
Less(a, axis, i, j) == bboxFn(a[i + 1]).Min[axis] < bboxFn(a[j + 1]).Min[axis]

\* the two inner scans of partition
RECURSIVE scanLeft(_, _, _, _, _)
scanLeft(a, axis, left, lastIdx, pivotIdx) ==
    IF left <= lastIdx /\ Less(a, axis, left, pivotIdx)
    THEN scanLeft(a, axis, left + 1, lastIdx, pivotIdx) ELSE left

RECURSIVE scanRight(_, _, _, _)
scanRight(a, axis, right, pivotIdx) ==
    IF right >= pivotIdx /\ Less(a, axis, pivotIdx, right)
    THEN scanRight(a, axis, right - 1, pivotIdx) ELSE right

\* the outer loop of partition
RECURSIVE partitionLoop(_, _, _, _, _, _)
partitionLoop(a, axis, left, right, lastIdx, pivotIdx) ==
    IF left > right
    THEN [a |-> Swap(a, pivotIdx, right), idx |-> right]
    ELSE LET l == scanLeft(a, axis, left, lastIdx, pivotIdx)
             r == scanRight(a, axis, right, pivotIdx)
         IN  IF l <= r
             THEN partitionLoop(Swap(a, l, r), axis, l + 1, r - 1, lastIdx, pivotIdx)
             ELSE partitionLoop(a, axis, l, r, lastIdx, pivotIdx)

\* a partition that leaves the pivot at the front
partitionPivotStays(a, axis, firstIdx, lastIdx, pivotIdx) ==
    With(partitionLoop(Swap(a, firstIdx, pivotIdx), axis, firstIdx + 1, lastIdx, lastIdx, firstIdx),
         LAMBDA p : [a |-> Swap(p.a, firstIdx, p.idx), idx |-> p.idx])

\* partition: the reordered sequence and the new position of the pivot
partition(a, axis, firstIdx, lastIdx, pivotIdx) ==
    partitionLoop(Swap(a, firstIdx, pivotIdx), axis, firstIdx + 1, lastIdx, lastIdx, firstIdx)

\* quickselect: every result the random guesses can produce
RECURSIVE quickselectLoop(_, _, _, _, _)
quickselectLoop(a, axis, n, first, last) ==
    UNION { LET p == partition(a, axis, first, last, guess)
            IN  IF n = p.idx THEN {p.a}
                ELSE IF n < p.idx THEN quickselectLoop(p.a, axis, n, first, p.idx - 1)
                ELSE quickselectLoop(p.a, axis, n, p.idx + 1, last)
          : guess \in first..last }

quickselect(a, axis, n) == quickselectLoop(a, axis, n, 0, Len(a) - 1)

CeilDiv(a, b) == (a + b - 1) \div b

\* the loop of groupItems over its stack of index pairs: all possible results
RECURSIVE groupItemsLoop(_, _, _, _)
groupItemsLoop(items, stack, groupSize, axis) ==
    IF Len(stack) = 0 THEN {items}
    ELSE LET rightIdx == stack[Len(stack)]
             leftIdx  == stack[Len(stack) - 1]
             rest     == SubSeq(stack, 1, Len(stack) - 2)
             size     == rightIdx - leftIdx
             pivot    == CeilDiv(size, 2 * groupSize) * groupSize
         IN  IF size <= groupSize THEN groupItemsLoop(items, rest, groupSize, axis)
             ELSE UNION { groupItemsLoop(
                              SubSeq(items, 1, leftIdx) \o q
                                  \o SubSeq(items, rightIdx + 2, Len(items)),
                              rest \o <<leftIdx, pivot + leftIdx, pivot + leftIdx, rightIdx>>,
                              groupSize, axis)
                        : q \in quickselect(SubSeq(items, leftIdx + 1, rightIdx + 1),
                                            axis, pivot) }

\* groupItems: axis 1 is xDim = true
groupItems(items, leftIdx, rightIdx, groupSize, axis) ==
    groupItemsLoop(items, <<leftIdx, rightIdx>>, groupSize, axis)

\* ------------------------------------------------------------ bulk loading

RECURSIVE Pow(_, _)
Pow(b, e) == IF e = 0 THEN 1 ELSE b * Pow(b, e - 1)

\* int(math.Ceil(logN(count, max))): the least h with max^h >= count
RECURSIVE CeilLog(_, _, _)
CeilLog(count, max, h) == IF Pow(max, h) >= count THEN h ELSE CeilLog(count, max, h + 1)

\* int(math.Ceil(math.Sqrt(max))): the least k with k*k >= max
RECURSIVE CeilSqrt(_, _)
CeilSqrt(max, k) == IF k * k >= max THEN k ELSE CeilSqrt(max, k + 1)

\* every order in which the workers' appends to node.children can interleave:
\* each worker appends its own subtrees in order, under the mutex
RECURSIVE Interleavings(_)
Interleavings(ss) ==
    IF \A k \in 1..Len(ss) : Len(ss[k]) = 0 THEN {<<>>}
    ELSE UNION { { <<ss[k][1]>> \o t : t \in Interleavings([ss EXCEPT ![k] = Tail(@)]) }
               : k \in {k \in 1..Len(ss) : Len(ss[k]) > 0} }

\* build returns every [ns, id, items] it can produce: the heap with the new
\* subtree, its root, and the reordered item slice.
RECURSIVE build(_, _, _, _, _)
RECURSIVE buildStrips(_, _, _, _, _, _, _)
RECURSIVE buildTiles(_, _, _, _, _, _, _, _)

\* the inner loop of one worker: the Y-strips [j, right3] of the tile up to right2
buildStrips(ns, items, j, right2, grpY, height, kids) ==
    IF j > right2 THEN {[ns |-> ns, items |-> items, kids |-> kids]}
    ELSE LET right3 == MinI(j + grpY - 1, right2)
         IN  UNION { buildStrips(sub.ns, sub.items, j + grpY, right2, grpY, height,
                                 Append(kids, sub.id))
                   : sub \in build(ns, items, j, right3, height - 1) }

\* the loop over the X-tiles [i, right2]; tiles work on disjoint ranges of items
buildTiles(ns, items, i, right, grpX, grpY, height, tiles) ==
    IF i > right THEN {[ns |-> ns, items |-> items, tiles |-> tiles]}
    ELSE LET right2 == MinI(i + grpX - 1, right)
         IN  UNION { UNION { buildTiles(w.ns, w.items, i + grpX, right, grpX, grpY, height,
                                        Append(tiles, w.kids))
                           : w \in buildStrips(ns, g, i, right2, grpY, height, <<>>) }
                   : g \in groupItems(items, i, right2, grpY, 2) }

build(ns, items, left, right, height) ==
    LET count == right - left + 1
        id    == FreshId(ns)
    IN  IF count <= maxEntries
        THEN LET leaf0 == [newNode EXCEPT !.items = SubSeq(items, left + 1, right + 1)]
                 leaf1 == [leaf0 EXCEPT !.bounds = calcBBox(ns, leaf0)]
             IN  {[ns |-> ns @@ (id :> leaf1), id |-> id, items |-> items]}
        ELSE LET h     == IF height = 0 THEN CeilLog(count, maxEntries, 0) ELSE height
                 max   == IF height = 0 THEN CeilDiv(count, Pow(maxEntries, h - 1))
                          ELSE maxEntries
                 grpY  == CeilDiv(count, max)
                 grpX  == grpY * CeilSqrt(max, 0)
                 node0 == [newNode EXCEPT !.leaf = FALSE, !.height = h]
             IN  UNION { UNION { { LET node1 == [node0 EXCEPT !.children = ch]
                                   IN  [ns    |-> [t.ns EXCEPT ![id] =
                                                      [node1 EXCEPT !.bounds = calcBBox(t.ns, node1)]],
                                        id    |-> id,
                                        items |-> t.items]
                                 : ch \in Interleavings(t.tiles) }
                               : t \in buildTiles(ns @@ (id :> node0), g, left, right,
                                                  grpX, grpY, h, <<>>) }
                       : g \in groupItems(items, left, right, grpX, 1) }

\* the single inserts of BulkLoad for fewer than minEntries items
RECURSIVE insertAll(_, _, _)
insertAll(T, items, k) ==
    IF k > Len(items) THEN T ELSE insertAll(Insert(T, items[k]), items, k + 1)

\* BulkLoad: every tree it can produce
BulkLoad(T, items) ==
    IF Len(items) < minEntries THEN {insertAll(T, items, 1)}
    ELSE { LET newTree == b.id
               T1      == [T EXCEPT !.nodes = b.ns]
           IN  IF entryCount(T1.nodes[T1.root]) = 0
               THEN [T1 EXCEPT !.root = newTree]
               ELSE IF T1.nodes[T1.root].height = T1.nodes[newTree].height
               THEN splitRoot(T1, T1.root, newTree)
               ELSE IF T1.nodes[T1.root].height < T1.nodes[newTree].height
               THEN insertNode([T1 EXCEPT !.root = newTree], T1.root,
                               T1.nodes[newTree].height - T1.nodes[T1.root].height - 1)
               ELSE insertNode(T1, newTree,
                               T1.nodes[T1.root].height - T1.nodes[newTree].height - 1)
         : b \in build(T.nodes, items, 0, Len(items) - 1, 0) }

\* ------------------------------------------------------------ the heap up to renaming

\* the nodes under id in depth-first order
RECURSIVE Preorder(_, _)
RECURSIVE PreorderAll(_, _, _)
Preorder(ns, id) == <<id>> \o PreorderAll(ns, ns[id].children, 1)
PreorderAll(ns, ch, k) ==
    IF k > Len(ch) THEN <<>> ELSE Preorder(ns, ch[k]) \o PreorderAll(ns, ch, k + 1)

\* Node addresses are not observable: drop the unreachable nodes (garbage) and
\* name the rest by their depth-first position.
Canon(T) ==
    With(Preorder(T.nodes, T.root), LAMBDA order :
        LET pos(id) == CHOOSE k \in 1..Len(order) : order[k] = id
        IN  [nodes |-> [k \in 1..Len(order) |->
                           [T.nodes[order[k]] EXCEPT
                               !.children = [j \in 1..Len(@) |-> pos(@[j])]]],
             root  |-> 1])

\* ------------------------------------------------------------ queries

\* math.MaxInt32, the cap of the uncapped searches
maxInt == 2147483647

\* Size: the number of stored items, by the traversal from the root
RECURSIVE SizeUnder(_, _)
RECURSIVE SizeAll(_, _, _)
SizeUnder(ns, id) == Len(ns[id].items) + SizeAll(ns, ns[id].children, 1)
SizeAll(ns, ch, k) ==
    IF k > Len(ch) THEN 0 ELSE SizeUnder(ns, ch[k]) + SizeAll(ns, ch, k + 1)

Size(T) == SizeUnder(T.nodes, T.root)

Height(T) == T.nodes[T.root].height

Bounds(T) == T.nodes[T.root].bounds

\* addAllItemsN: items extended by the items under the nodes of the stack,
\* cut at maxLen
RECURSIVE addAllItemsLoop(_, _, _, _)
addAllItemsLoop(ns, stack, items, maxLen) ==
    IF Len(stack) = 0 THEN items
    ELSE With(ns[stack[Len(stack)]], LAMBDA nod :
         With(items \o nod.items, LAMBDA items1 :
             IF Len(items1) >= maxLen THEN SubSeq(items1, 1, maxLen)
             ELSE With(SubSeq(stack, 1, Len(stack) - 1) \o nod.children, LAMBDA stack1 :
                      addAllItemsLoop(ns, stack1, items1, maxLen))))

addAllItemsN(ns, id, items, maxLen) == addAllItemsLoop(ns, <<id>>, items, maxLen)

\* the loop of search over the children of a node from position k on
RECURSIVE searchChildren(_, _, _, _, _, _, _)
searchChildren(ns, area, maxResults, children, k, stack, items) ==
    IF k > Len(children) THEN [stack |-> stack, items |-> items, done |-> FALSE]
    ELSE With(children[k], LAMBDA child :
             IF ~Intersects(area, ns[child].bounds)
             THEN searchChildren(ns, area, maxResults, children, k + 1, stack, items)
             ELSE IF ContainsRectf(area, ns[child].bounds)
             THEN With(addAllItemsN(ns, child, items, maxResults), LAMBDA items1 :
                      IF Len(items1) >= maxResults
                      THEN [stack |-> stack, items |-> items1, done |-> TRUE]
                      ELSE searchChildren(ns, area, maxResults, children, k + 1, stack,
                                          items1))
             ELSE With(Append(stack, child), LAMBDA stack1 :
                      searchChildren(ns, area, maxResults, children, k + 1, stack1, items)))

\* the loop of search over the items of a node from position k on
RECURSIVE searchItems(_, _, _, _, _, _)
searchItems(area, mustCover, maxResults, nodeItems, k, items) ==
    IF k > Len(nodeItems) THEN [items |-> items, done |-> FALSE]
    ELSE With(nodeItems[k], LAMBDA item :
             IF \/ mustCover /\ ContainsRectf(area, bboxFn(item))
                \/ ~mustCover /\ Intersects(area, bboxFn(item))
             THEN With(Append(items, item), LAMBDA items1 :
                      IF Len(items1) >= maxResults THEN [items |-> items1, done |-> TRUE]
                      ELSE searchItems(area, mustCover, maxResults, nodeItems, k + 1, items1))
             ELSE searchItems(area, mustCover, maxResults, nodeItems, k + 1, items))

\* the worklist loop of search
RECURSIVE searchLoop(_, _, _, _, _, _)
searchLoop(ns, area, mustCover, maxResults, nodesToSearch, items) ==
    IF Len(nodesToSearch) = 0 THEN items
    ELSE With(ns[nodesToSearch[Len(nodesToSearch)]], LAMBDA nod :
         With(searchChildren(ns, area, maxResults, nod.children, 1,
                             SubSeq(nodesToSearch, 1, Len(nodesToSearch) - 1), items),
              LAMBDA c :
             IF c.done THEN c.items
             ELSE With(searchItems(area, mustCover, maxResults, nod.items, 1, c.items),
                       LAMBDA i :
                      IF i.done THEN i.items
                      ELSE searchLoop(ns, area, mustCover, maxResults, c.stack, i.items))))

search(T, area0, mustCover, maxResults) ==
    With(Normalize(area0), LAMBDA area :
        IF ~Intersects(area, T.nodes[T.root].bounds) THEN <<>>
        ELSE searchLoop(T.nodes, area, mustCover, maxResults, <<T.root>>, <<>>))

Search(T, area, mustCover) == search(T, area, mustCover, maxInt)

SearchN(T, area, mustCover, maxResults) == search(T, area, mustCover, maxResults)

\* addAllFilteredItems: items extended by the filtered items under the nodes
\* of the stack; a filter is the set of the items it accepts
RECURSIVE addAllFilteredLoop(_, _, _, _)
addAllFilteredLoop(ns, stack, items, filter) ==
    IF Len(stack) = 0 THEN items
    ELSE With(ns[stack[Len(stack)]], LAMBDA nod :
         With(SubSeq(stack, 1, Len(stack) - 1) \o nod.children, LAMBDA stack1 :
         With(items \o SelectSeq(nod.items, LAMBDA item : item \in filter), LAMBDA items1 :
             addAllFilteredLoop(ns, stack1, items1, filter))))

\* a contained subtree added without asking the filter
addAllUnfilteredItems(ns, id, items, filter) == addAllFilteredLoop(ns, <<id>>, items, Items)

addAllFilteredItems(ns, id, items, filter) == addAllFilteredLoop(ns, <<id>>, items, filter)

\* the loop of SearchFiltered over the children of a node from position k on
RECURSIVE filteredChildren(_, _, _, _, _, _, _)
filteredChildren(ns, area, filter, children, k, stack, items) ==
    IF k > Len(children) THEN [stack |-> stack, items |-> items]
    ELSE With(children[k], LAMBDA child :
             IF ~Intersects(area, ns[child].bounds)
             THEN filteredChildren(ns, area, filter, children, k + 1, stack, items)
             ELSE IF ContainsRectf(area, ns[child].bounds)
             THEN With(addAllFilteredItems(ns, child, items, filter), LAMBDA items1 :
                      filteredChildren(ns, area, filter, children, k + 1, stack, items1))
             ELSE With(Append(stack, child), LAMBDA stack1 :
                      filteredChildren(ns, area, filter, children, k + 1, stack1, items)))

\* the loop of SearchFiltered over the items of a node
filteredItems(area, mustCover, filter, nodeItems, items) ==
    items \o SelectSeq(nodeItems, LAMBDA item :
                 /\ item \in filter
                 /\ \/ mustCover /\ ContainsRectf(area, bboxFn(item))
                    \/ ~mustCover /\ Intersects(area, bboxFn(item)))

\* the worklist loop of SearchFiltered
RECURSIVE filteredLoop(_, _, _, _, _, _)
filteredLoop(ns, area, mustCover, filter, nodesToSearch, items) ==
    IF Len(nodesToSearch) = 0 THEN items
    ELSE With(ns[nodesToSearch[Len(nodesToSearch)]], LAMBDA nod :
         With(filteredChildren(ns, area, filter, nod.children, 1,
                               SubSeq(nodesToSearch, 1, Len(nodesToSearch) - 1), items),
              LAMBDA c :
         With(filteredItems(area, mustCover, filter, nod.items, c.items), LAMBDA items1 :
             filteredLoop(ns, area, mustCover, filter, c.stack, items1))))

SearchFiltered(T, area0, mustCover, filter) ==
    With(Normalize(area0), LAMBDA area :
        IF ~Intersects(area, T.nodes[T.root].bounds) THEN <<>>
        ELSE filteredLoop(T.nodes, area, mustCover, filter, <<T.root>>, <<>>))

\* the loop of RTree.Intersects over the children of a node from position k on
RECURSIVE intersectsChildren(_, _, _, _, _)
intersectsChildren(ns, area, children, k, stack) ==
    IF k > Len(children) THEN [stack |-> stack, found |-> FALSE]
    ELSE With(children[k], LAMBDA child :
             IF ~Intersects(area, ns[child].bounds)
             THEN intersectsChildren(ns, area, children, k + 1, stack)
             ELSE IF ContainsRectf(area, ns[child].bounds)
             THEN [stack |-> stack, found |-> TRUE]
             ELSE With(Append(stack, child), LAMBDA stack1 :
                      intersectsChildren(ns, area, children, k + 1, stack1)))

\* a loop of RTree.Intersects that accepts only the items the area covers
RECURSIVE intersectsLoopCover(_, _, _)
intersectsLoopCover(ns, area, nodesToSearch) ==
    IF Len(nodesToSearch) = 0 THEN FALSE
    ELSE With(ns[nodesToSearch[Len(nodesToSearch)]], LAMBDA nod :
         With(intersectsChildren(ns, area, nod.children, 1,
                                 SubSeq(nodesToSearch, 1, Len(nodesToSearch) - 1)),
              LAMBDA c :
             IF c.found THEN TRUE
             ELSE IF \E k \in 1..Len(nod.items) : ContainsRectf(area, bboxFn(nod.items[k]))
             THEN TRUE
             ELSE intersectsLoopCover(ns, area, c.stack)))

\* the worklist loop of RTree.Intersects
RECURSIVE intersectsLoop(_, _, _)
intersectsLoop(ns, area, nodesToSearch) ==
    IF Len(nodesToSearch) = 0 THEN FALSE
    ELSE With(ns[nodesToSearch[Len(nodesToSearch)]], LAMBDA nod :
         With(intersectsChildren(ns, area, nod.children, 1,
                                 SubSeq(nodesToSearch, 1, Len(nodesToSearch) - 1)),
              LAMBDA c :
             IF c.found THEN TRUE
             ELSE IF \E k \in 1..Len(nod.items) : Intersects(area, bboxFn(nod.items[k]))
             THEN TRUE
             ELSE intersectsLoop(ns, area, c.stack)))

\* RTree.Intersects: whether any item overlaps the area
RTreeIntersects(T, area0) ==
    With(Normalize(area0), LAMBDA area :
        IF ~Intersects(area, T.nodes[T.root].bounds) THEN FALSE
        ELSE intersectsLoop(T.nodes, area, <<T.root>>))

\* ------------------------------------------------------------ nearest neighbour

\* sort.Sort(nodesByDistance) on at most 12 elements, an insertion sort:
\* Less compares sqDistances, Swap exchanges the nodes only.
RECURSIVE sortInner(_, _, _)
sortInner(ns, sqDistances, j) ==
    IF j > 1 /\ sqDistances[j] < sqDistances[j - 1]
    THEN With([ns EXCEPT ![j] = ns[j - 1], ![j - 1] = ns[j]], LAMBDA ns1 :
             sortInner(ns1, sqDistances, j - 1))
    ELSE ns

RECURSIVE sortOuter(_, _, _)
sortOuter(ns, sqDistances, i) ==
    IF i > Len(ns) THEN ns
    ELSE With(sortInner(ns, sqDistances, i), LAMBDA ns1 : sortOuter(ns1, sqDistances, i + 1))

\* sortNodesByDistance: a copy of the child list, sorted, and the distances
sortNodesByDistance(ns, pos, children) ==
    With([i \in 1..Len(children) |-> SquarePointDistance(ns[children[i]].bounds, pos)],
         LAMBDA sqDistances :
        [nodes |-> sortOuter(children, sqDistances, 2), sqDistances |-> sqDistances])

\* the distance to the nearest corner of r in place of minMaxDist
minMaxDistNearest(pos, r) ==
    LET rm == [k \in 1..2 |-> IF 2 * pos[k] <= r.Min[k] + r.Max[k] THEN r.Min[k]
                              ELSE r.Max[k]]
        dm == [k \in 1..2 |-> pos[k] - rm[k]]
    IN  dm[1] * dm[1] + dm[2] * dm[2]

\* minMaxDist: center is (Min + Max) / 2, so pos <= center iff 2 pos <= Min + Max
minMaxDist(pos, r) ==
    LET rm == [k \in 1..2 |-> IF 2 * pos[k] <= r.Min[k] + r.Max[k] THEN r.Min[k]
                              ELSE r.Max[k]]
        rM == [k \in 1..2 |-> IF 2 * pos[k] >= r.Min[k] + r.Max[k] THEN r.Min[k]
                              ELSE r.Max[k]]
        dm == [k \in 1..2 |-> pos[k] - rm[k]]
        dM == [k \in 1..2 |-> pos[k] - rM[k]]
        S  == dM[1] * dM[1] + dM[2] * dM[2]
    IN  MinI(S - dM[1] * dM[1] + dm[1] * dm[1], S - dM[2] * dM[2] + dm[2] * dm[2])

RECURSIVE minMinMaxDist(_, _, _, _, _)
minMinMaxDist(ns, pos, sortedNodes, k, acc) ==
    IF k > Len(sortedNodes) THEN acc
    ELSE With(MinI(minMaxDist(pos, ns[sortedNodes[k]].bounds), acc), LAMBDA acc1 :
             minMinMaxDist(ns, pos, sortedNodes, k + 1, acc1))

RECURSIVE keepNear(_, _, _, _)
keepNear(sorted, limit, k, out) ==
    IF k > Len(sorted.nodes) THEN out
    ELSE IF sorted.sqDistances[k] <= limit
    THEN With([nodes |-> Append(out.nodes, sorted.nodes[k]),
               sqDistances |-> Append(out.sqDistances, sorted.sqDistances[k])],
              LAMBDA out1 : keepNear(sorted, limit, k + 1, out1))
    ELSE keepNear(sorted, limit, k + 1, out)

\* pruneNodes removes the nodes that cannot contain the nearest neighbour
pruneNodes(ns, pos, nearestSqDist, sortedNodes) ==
    With(minMinMaxDist(ns, pos, sortedNodes.nodes, 1, nearestSqDist), LAMBDA limit :
        keepNear(sortedNodes, limit, 1, [nodes |-> <<>>, sqDistances |-> <<>>]))

\* a loop over the items that also takes an item at the distance held so far
RECURSIVE nearestItemAtMost(_, _, _, _)
nearestItemAtMost(pos, nodeItems, k, best) ==
    IF k > Len(nodeItems) THEN best
    ELSE With(SquarePointDistance(bboxFn(nodeItems[k]), pos), LAMBDA itemDist :
             IF itemDist <= best.dist
             THEN With([item |-> nodeItems[k], dist |-> itemDist], LAMBDA best1 :
                      nearestItemAtMost(pos, nodeItems, k + 1, best1))
             ELSE nearestItemAtMost(pos, nodeItems, k + 1, best))

\* the scan of a leaf's items from position k on
RECURSIVE nearestItem(_, _, _, _)
nearestItem(pos, nodeItems, k, best) ==
    IF k > Len(nodeItems) THEN best
    ELSE With(SquarePointDistance(bboxFn(nodeItems[k]), pos), LAMBDA itemDist :
             IF itemDist < best.dist
             THEN With([item |-> nodeItems[k], dist |-> itemDist], LAMBDA best1 :
                      nearestItem(pos, nodeItems, k + 1, best1))
             ELSE nearestItem(pos, nodeItems, k + 1, best))

\* nearestNeighbor and its loop over the pruned children; best is the pair
\* (nearest, nearestSqDist)
RECURSIVE nearestNeighbor(_, _, _, _)
RECURSIVE nearestChildren(_, _, _, _, _)
nearestChildren(ns, pos, children, idx, best) ==
    IF idx > Len(children.nodes) THEN best
    ELSE IF children.sqDistances[idx] > best.dist THEN best
    ELSE With(nearestNeighbor(ns, pos, children.nodes[idx], best), LAMBDA new :
         With(IF new.dist < best.dist THEN new ELSE best, LAMBDA best1 :
             nearestChildren(ns, pos, children, idx + 1, best1)))

nearestNeighbor(ns, pos, id, best) ==
    IF ns[id].leaf THEN nearestItem(pos, ns[id].items, 1, best)
    ELSE With(sortNodesByDistance(ns, pos, ns[id].children), LAMBDA sorted :
         With(pruneNodes(ns, pos, best.dist, sorted), LAMBDA children :
             nearestChildren(ns, pos, children, 1, best)))

\* a sort on the child list of the node itself
sortedSliceLive(id) == "children"

\* the slice sortNodesByDistance sorts and pruneNodes compacts: a copy of
\* the child list made with make and copy
sortedSlice(id) == "copy"

\* the heap after sort.Sort and pruneNodes wrote to that slice of node id:
\* the pruned nodes at the front, the sorted ones behind them
writeSorted(ns, id, sorted, children) ==
    IF sortedSlice(id) = "children"
    THEN [ns EXCEPT ![id].children =
              children.nodes \o SubSeq(sorted.nodes, Len(children.nodes) + 1, Len(sorted.nodes))]
    ELSE ns

\* nearestNeighbor with the heap it leaves: best is the pair (nearest,
\* nearestSqDist), ns the nodes after the call
RECURSIVE nearestNeighborIn(_, _, _, _)
RECURSIVE nearestChildrenIn(_, _, _, _, _)
nearestChildrenIn(ns, pos, children, idx, best) ==
    IF idx > Len(children.nodes) THEN [best |-> best, ns |-> ns]
    ELSE IF children.sqDistances[idx] > best.dist THEN [best |-> best, ns |-> ns]
    ELSE With(nearestNeighborIn(ns, pos, children.nodes[idx], best), LAMBDA new :
         With(IF new.best.dist < best.dist THEN new.best ELSE best, LAMBDA best1 :
             nearestChildrenIn(new.ns, pos, children, idx + 1, best1)))

nearestNeighborIn(ns, pos, id, best) ==
    IF ns[id].leaf THEN [best |-> nearestItem(pos, ns[id].items, 1, best), ns |-> ns]
    ELSE With(sortNodesByDistance(ns, pos, ns[id].children), LAMBDA sorted :
         With(pruneNodes(ns, pos, best.dist, sorted), LAMBDA children :
         With(writeSorted(ns, id, sorted, children), LAMBDA ns1 :
             nearestChildrenIn(ns1, pos, children, 1, best))))

\* NearestNeighbor: the item, nil for none
NearestNeighbor(T, pos) ==
    nearestNeighbor(T.nodes, pos, T.root, [item |-> nil, dist |-> Inf]).item

\* NearestNeighborWithin: the search starts from maxDistance squared
NearestNeighborWithin(T, pos, maxDistance) ==
    nearestNeighbor(T.nodes, pos, T.root,
                    [item |-> nil, dist |-> maxDistance * maxDistance]).item

\* ------------------------------------------------------------ the system

Tree == [nodes |-> nodes, root |-> root]

\* the items a tree holds, with their multiplicity ignored
RECURSIVE ItemsUnder(_, _)
ItemsUnder(ns, id) ==
    {ns[id].items[k] : k \in 1..Len(ns[id].items)}
        \cup UNION {ItemsUnder(ns, ns[id].children[k]) : k \in 1..Len(ns[id].children)}

Stored == ItemsUnder(nodes, root)

\* the bounds of the model: single inserts, bulk loads, successful removals,
\* the items of a round trip, the largest cap of SearchN
MaxInserts == 5
MaxBulkLoads == 2
MaxRemoves == 1
MaxRoundTrip == 14
MaxCap == 2

\* the items Insert is called with
Singles == 1..5

\* the item slices BulkLoad is called with
Batches == { <<>>, <<6, 7, 8, 9, 10>>, <<11, 12>> }

\* the items Remove is called with
RemoveTargets == {5, 7, 12}

\* the areas of the searches (the last one is not normalized) and the
\* positions of the nearest-neighbour queries
Queries ==
    { Rect(0, -1, 2, 1), Rect(-1, -1, 11, 9), Rect(0, 0, 10, 0), Rect(2, 1, 6, 4),
      Rect(1, 0, 1, 0), Rect(7, -1, 11, 3), Rect(10, 5, 3, -1) }

Positions == { <<10, 1>>, <<0, 0>>, <<5, 3>>, <<8, 1>>, <<3, 7>> }

\* the filters SearchFiltered is asked with, each the set of the items it accepts
Filters == { {1, 3, 5, 7, 9, 11, 13}, {2, 6, 7, 8, 12}, Items }

\* the distances NearestNeighborWithin is asked with
Distances == {0, 1, 3, 12}

Loaded == {b \in Batches : Len(b) > 0 /\ b[1] \in added}

\* the round trip: the items inserted, last on top; whether the removals have
\* begun; the largest height the tree had
rtInit == [stack |-> <<>>, removing |-> FALSE, peak |-> 1]

\* one call of build with its workers: main is the position of the caller,
\* pc, j, sub and read are the position and the locals of each worker (a
\* worker is named by the first index i of its tile), mutex is the set of
\* the workers that hold m, wg is the counter of the WaitGroup, built are the subtrees
\* the workers have built
omtInit ==
    [main |-> "idle", items |-> <<>>, node |-> nil, next |-> 0, right |-> 0,
     grpX |-> 0, grpY |-> 0, height |-> 0, pc |-> <<>>, j |-> <<>>, sub |-> <<>>,
     read |-> <<>>, mutex |-> {}, wg |-> 0, built |-> {}]

\* one call of a function on its own: its inputs, its position and its result
callInit == [op |-> "none"]

Init ==
    /\ nodes = (1 :> newNode)
    /\ root = 1
    /\ added = {}
    /\ removedHits = 0
    /\ rt = rtInit
    /\ omt = omtInit
    /\ call = callInit

DoInsert ==
    \E item \in Singles \ added :
        /\ Cardinality(added \cap Singles) < MaxInserts
        /\ \E T0 \in {Tree} : \E T1 \in {Insert(T0, item)} : \E T \in {Canon(T1)} :
               nodes' = T.nodes /\ root' = T.root
        /\ added' = added \cup {item}
        /\ UNCHANGED <<removedHits, rt, omt, call>>

DoBulkLoad ==
    \E items \in Batches \ Loaded :
        /\ Cardinality(Loaded) < MaxBulkLoads
        /\ \E T0 \in {Tree} : \E T1 \in BulkLoad(T0, items) : \E T \in {Canon(T1)} :
               nodes' = T.nodes /\ root' = T.root
        /\ added' = added \cup {items[k] : k \in 1..Len(items)}
        /\ UNCHANGED <<removedHits, rt, omt, call>>

DoRemove ==
    \E item \in RemoveTargets :
        /\ item \in Stored => removedHits < MaxRemoves
        /\ \E T0 \in {Tree} : \E T1 \in {Remove(T0, item, "nil")} : \E T \in {Canon(T1)} :
               nodes' = T.nodes /\ root' = T.root
        /\ removedHits' = removedHits + (IF item \in Stored THEN 1 ELSE 0)
        /\ UNCHANGED <<added, rt, omt, call>>

Next == DoInsert \/ DoBulkLoad \/ DoRemove

Spec == Init /\ [][Next]_vars

\* The round trip: insert N items (the singles in any order, then the other
\* items by ascending id), then remove them all, the last inserted first.
RoundTripInsert ==
    \E item \in Items \ added :
        /\ ~rt.removing
        /\ Len(rt.stack) < MaxRoundTrip
        /\ item \in Singles \/ (Singles \subseteq added /\ item = Len(rt.stack) + 1)
        /\ \E T0 \in {Tree} : \E T1 \in {Insert(T0, item)} : \E T \in {Canon(T1)} :
               /\ nodes' = T.nodes /\ root' = T.root
               /\ rt' = [rt EXCEPT !.stack = Append(@, item),
                                   !.peak = MaxI(@, Height(T))]
        /\ added' = added \cup {item}
        /\ UNCHANGED <<removedHits, omt, call>>

RoundTripRemove ==
    /\ Len(rt.stack) > 0
    /\ \E T0 \in {Tree} : \E T1 \in {Remove(T0, rt.stack[Len(rt.stack)], "nil")} :
       \E T \in {Canon(T1)} :
           nodes' = T.nodes /\ root' = T.root
    /\ removedHits' = removedHits + (IF rt.stack[Len(rt.stack)] \in Stored THEN 1 ELSE 0)
    /\ rt' = [rt EXCEPT !.stack = SubSeq(@, 1, Len(@) - 1), !.removing = TRUE]
    /\ UNCHANGED <<added, omt, call>>

NextRoundTrip == RoundTripInsert \/ RoundTripRemove

SpecRoundTrip == Init /\ [][NextRoundTrip]_vars

\* ------------------------------------------------------------ the workers of build

\* the item slices build is called with, all longer than maxEntries
BuildBatches ==
    { <<1, 2, 3, 4, 5, 6, 7, 8, 9>>,
      <<13, 12, 11, 10, 9, 8, 7, 6, 5, 4, 3, 2, 1>> }

\* a Lock that never waits
canLockAlways(mutex) == TRUE

\* m.Lock() returns once no worker holds the mutex
canLock(mutex) == mutex = {}

\* the last index of the tile of worker w
right2(w) == MinI(w + omt.grpX - 1, omt.right)

\* build up to the first loop: the new node, the target height, the group
\* sizes and the grouping by x
BuildStart ==
    /\ omt.main = "idle"
    /\ \E items \in BuildBatches : \E id \in {FreshId(nodes)} :
       \E h \in {CeilLog(Len(items), maxEntries, 0)} :
       \E max \in {CeilDiv(Len(items), Pow(maxEntries, h - 1))} :
       \E grpY \in {CeilDiv(Len(items), max)} :
       \E g \in groupItems(items, 0, Len(items) - 1, grpY * CeilSqrt(max, 0), 1) :
           /\ nodes' = nodes @@ (id :> [newNode EXCEPT !.leaf = FALSE, !.height = h])
           /\ omt' = [omt EXCEPT !.main = "spawn", !.items = g, !.node = id,
                                 !.right = Len(items) - 1, !.grpY = grpY,
                                 !.grpX = grpY * CeilSqrt(max, 0), !.height = h]
    /\ UNCHANGED <<root, added, removedHits, rt, call>>

\* wg.Add(1); go func(i)
BuildSpawn ==
    /\ omt.main = "spawn"
    /\ omt.next <= omt.right
    /\ omt' = [omt EXCEPT !.pc = (omt.next :> "group") @@ @,
                          !.j = (omt.next :> omt.next) @@ @,
                          !.sub = (omt.next :> nil) @@ @,
                          !.read = (omt.next :> <<>>) @@ @,
                          !.wg = @ + 1,
                          !.next = @ + omt.grpX]
    /\ UNCHANGED <<nodes, root, added, removedHits, rt, call>>

\* groupItems(items, i, right2, grpY, false)
WorkerGroup(w) ==
    /\ omt.pc[w] = "group"
    /\ \E g \in groupItems(omt.items, w, right2(w), omt.grpY, 2) :
           omt' = [omt EXCEPT !.items = g, !.pc[w] = "build"]
    /\ UNCHANGED <<nodes, root, added, removedHits, rt, call>>

\* sub := r.build(items, j, right3, height-1)
WorkerBuild(w) ==
    /\ omt.pc[w] = "build"
    /\ omt.j[w] <= right2(w)
    /\ \E b \in build(nodes, omt.items, omt.j[w],
                      MinI(omt.j[w] + omt.grpY - 1, right2(w)), omt.height - 1) :
           /\ nodes' = b.ns
           /\ omt' = [omt EXCEPT !.items = b.items, !.sub[w] = b.id, !.pc[w] = "lock",
                                 !.built = @ \cup {b.id}]
    /\ UNCHANGED <<root, added, removedHits, rt, call>>

\* m.Lock()
WorkerLock(w) ==
    /\ omt.pc[w] = "lock"
    /\ canLock(omt.mutex)
    /\ omt' = [omt EXCEPT !.mutex = {w}, !.pc[w] = "read"]
    /\ UNCHANGED <<nodes, root, added, removedHits, rt, call>>

\* append(node.children, sub): the read of node.children
WorkerRead(w) ==
    /\ omt.pc[w] = "read"
    /\ omt' = [omt EXCEPT !.read[w] = nodes[omt.node].children, !.pc[w] = "write"]
    /\ UNCHANGED <<nodes, root, added, removedHits, rt, call>>

\* node.children = append(...): the write of node.children
WorkerWrite(w) ==
    /\ omt.pc[w] = "write"
    /\ nodes' = [nodes EXCEPT ![omt.node].children = Append(omt.read[w], omt.sub[w])]
    /\ omt' = [omt EXCEPT !.pc[w] = "unlock"]
    /\ UNCHANGED <<root, added, removedHits, rt, call>>

\* m.Unlock(); j += grpY
WorkerUnlock(w) ==
    /\ omt.pc[w] = "unlock"
    /\ omt' = [omt EXCEPT !.mutex = {}, !.j[w] = @ + omt.grpY, !.pc[w] = "build"]
    /\ UNCHANGED <<nodes, root, added, removedHits, rt, call>>

\* the end of the worker's loop: wg.Done()
WorkerDone(w) ==
    /\ omt.pc[w] = "build"
    /\ omt.j[w] > right2(w)
    /\ omt' = [omt EXCEPT !.pc[w] = "done", !.wg = @ - 1]
    /\ UNCHANGED <<nodes, root, added, removedHits, rt, call>>

\* wg.Wait() after the last worker was started
BuildWait ==
    /\ omt.main = "spawn"
    /\ omt.next > omt.right
    /\ omt.wg = 0
    /\ omt' = [omt EXCEPT !.main = "bbox"]
    /\ UNCHANGED <<nodes, root, added, removedHits, rt, call>>

\* calcBBox(node); return node
BuildReturn ==
    /\ omt.main = "bbox"
    /\ nodes' = [nodes EXCEPT ![omt.node].bounds = calcBBox(nodes, nodes[omt.node])]
    /\ omt' = [omt EXCEPT !.main = "returned"]
    /\ UNCHANGED <<root, added, removedHits, rt, call>>

NextBuild ==
    \/ BuildStart
    \/ BuildSpawn
    \/ \E w \in DOMAIN omt.pc :
           \/ WorkerGroup(w)
           \/ WorkerBuild(w)
           \/ WorkerLock(w)
           \/ WorkerRead(w)
           \/ WorkerWrite(w)
           \/ WorkerUnlock(w)
           \/ WorkerDone(w)
    \/ BuildWait
    \/ BuildReturn

SpecBuild == Init /\ [][NextBuild]_vars

\* ------------------------------------------------------------ the structure

\* the depths (the root has depth 1) of the leaves under a node
RECURSIVE LeafDepths(_, _, _)
LeafDepths(ns, id, depth) ==
    IF ns[id].leaf THEN {depth}
    ELSE UNION {LeafDepths(ns, ns[id].children[k], depth + 1) :
                   k \in 1..Len(ns[id].children)}

NonRoot == DOMAIN nodes \ {root}

\* C1: the cached bounds of every node are exactly the union of the bounds of
\* its entries, the bounds of no entry for an empty node, after every
\* insertion (the halves of a split included), bulk load and removal.
BoundsExact ==
    \A id \in DOMAIN nodes : nodes[id].bounds = calcBBox(nodes, nodes[id])

\* C2: every node other than the root holds between minEntries and maxEntries
\* entries, and the root holds at most maxEntries.
EntriesWithinMinMax ==
    /\ \A id \in NonRoot : /\ entryCount(nodes[id]) >= minEntries
                           /\ entryCount(nodes[id]) <= maxEntries
    /\ entryCount(nodes[root]) <= maxEntries

\* C2, amended: every node other than the root holds at least one entry and at
\* most maxEntries entries, and the root holds at most maxEntries.
EntriesWithinOneMax ==
    /\ \A id \in NonRoot : /\ entryCount(nodes[id]) >= 1
                           /\ entryCount(nodes[id]) <= maxEntries
    /\ entryCount(nodes[root]) <= maxEntries

\* a removal has left a node other than the root with a single entry, next to
\* a full node
UnderfullAfterRemove ==
    /\ removedHits > 0
    /\ \E id \in NonRoot : entryCount(nodes[id]) = 1
    /\ \E id \in NonRoot : entryCount(nodes[id]) = maxEntries

\* C3: every leaf has height 1, every internal node is one higher than each
\* of its children, and every leaf lies root.height levels deep, after
\* inserts, bulk loads (OMT build, join of equal heights, insertion of the
\* smaller tree into the larger) and removals.
Balanced ==
    /\ \A id \in DOMAIN nodes :
          IF nodes[id].leaf
          THEN nodes[id].height = 1 /\ nodes[id].children = <<>>
          ELSE /\ nodes[id].items = <<>>
               /\ \A k \in 1..Len(nodes[id].children) :
                      nodes[id].height = nodes[nodes[id].children[k]].height + 1
    /\ LeafDepths(nodes, root, 1) = {nodes[root].height}

\* a tree of three levels after both bulk loads, single inserts and a removal
ThreeLevelsAfterBulkLoads ==
    /\ nodes[root].height = 3
    /\ Cardinality(Loaded) = 2
    /\ added \cap Singles # {}
    /\ removedHits > 0

\* C4: Size() is the number of items added minus the number of Remove calls
\* whose item was stored, every item being added at most once.
SizeCountsItems == Size(Tree) = Cardinality(added) - removedHits

\* a tree of several levels that still holds items after a removal
SizeAfterRemove ==
    /\ removedHits > 0
    /\ Size(Tree) > maxEntries
    /\ ~nodes[root].leaf

\* ------------------------------------------------------------ the queries

Range(s) == {s[k] : k \in 1..Len(s)}

\* C5: the items of Search(q, false), taken as a set, are the stored items
\* whose bounds Intersects the normalized q, as a linear scan finds them.
SearchIsLinearScan ==
    \A q \in Queries :
        Range(Search(Tree, q, FALSE)) =
            {item \in Stored : Intersects(Normalize(q), bboxFn(item))}

\* C6: every item of Search(a, true) has its bounds contained in the
\* normalized a, and every item of Search(a, false) has bounds that strictly
\* intersect it, the items taken wholesale from a contained subtree included.
SearchIsSound ==
    \A a \in Queries :
        /\ \A item \in Range(Search(Tree, a, TRUE)) :
               ContainsRectf(Normalize(a), bboxFn(item))
        /\ \A item \in Range(Search(Tree, a, FALSE)) :
               Intersects(Normalize(a), bboxFn(item))

\* C7: NearestNeighbor(pos) returns a stored item at the least squared
\* distance from pos among all stored items, and nil only for an empty tree.
NearestIsNearest ==
    \A pos \in Positions :
        With(NearestNeighbor(Tree, pos), LAMBDA nearest :
            IF Stored = {} THEN nearest = nil
            ELSE /\ nearest \in Stored
                 /\ \A item \in Stored :
                        SquarePointDistance(bboxFn(nearest), pos)
                            <= SquarePointDistance(bboxFn(item), pos))

\* C8: Remove of an item that matches no stored item, by identity or by the
\* given equality of bounds, leaves the nodes, their entries, their bounds
\* and the root as they were.
RemoveAbsentKeepsTree ==
    \A item \in Items : \A equalsFn \in {"nil", "bounds"} :
        (\A other \in Stored : ~Equals(equalsFn, item, other))
            => Remove(Tree, item, equalsFn) = Tree

\* an item removed before lies within the bounds of a leaf of a tree of
\* several levels, so that a second Remove of it scans that leaf
AbsentItemInsideLeaf ==
    /\ removedHits > 0
    /\ nodes[root].height > 1
    /\ \E item \in added \ Stored : \E id \in DOMAIN nodes :
           /\ nodes[id].leaf
           /\ Len(nodes[id].items) > 0
           /\ ContainsRectf(nodes[id].bounds, bboxFn(item))
           /\ ContainsRectf(nodes[root].bounds, bboxFn(item))

\* C9: after N items are inserted into an empty tree and all of them removed,
\* the last inserted first, Size() is 0, Height() is 1 and Bounds() is the
\* empty rectangle.
RoundTripEmpties ==
    (rt.removing /\ rt.stack = <<>>)
        => /\ Size(Tree) = 0
           /\ Height(Tree) = 1
           /\ Bounds(Tree) = noBounds

\* a round trip of more than twelve items through a tree of three levels
RoundTripThreeLevels ==
    /\ rt.removing
    /\ rt.stack = <<>>
    /\ rt.peak = 3
    /\ removedHits > 12

\* C10: SearchN(area, mustCover, cap) returns at most cap items, for cap = 0
\* too.
SearchNWithinCap ==
    \A area \in Queries : \A mustCover \in BOOLEAN : \A cap \in 0..MaxCap :
        Len(SearchN(Tree, area, mustCover, cap)) <= cap

\* C11: Intersects(a) is true exactly when Search(a, false) returns at least
\* one item; the early true for a child whose bounds the area contains is
\* backed by an item stored under that child.
IntersectsIffSearch ==
    \A a \in Queries :
        RTreeIntersects(Tree, a) <=> Len(Search(Tree, a, FALSE)) > 0

\* one area contains the bounds of a child of the root, so that Intersects
\* answers early, and another area finds nothing in the same tree
IntersectsEarlyAndNone ==
    /\ ~nodes[root].leaf
    /\ \E a \in Queries : \E k \in 1..Len(nodes[root].children) :
           /\ ContainsRectf(Normalize(a), nodes[nodes[root].children[k]].bounds)
           /\ Intersects(Normalize(a), nodes[nodes[root].children[k]].bounds)
           /\ RTreeIntersects(Tree, a)
    /\ \E a \in Queries : ~RTreeIntersects(Tree, a)

\* C12: for every interleaving of the workers of build, every subtree a
\* worker built is in the parent's child list exactly once when build
\* returns, build does not go past wg.Wait() before every worker has
\* finished, and the parent's bounds, computed after all appends, are the
\* union of the bounds of all children.
BuildAppendsEachOnce ==
    /\ omt.main \in {"bbox", "returned"}
           => \A w \in DOMAIN omt.pc : omt.pc[w] = "done"
    /\ omt.main = "returned"
           => /\ Range(nodes[omt.node].children) = omt.built
              /\ Len(nodes[omt.node].children) = Cardinality(omt.built)
              /\ nodes[omt.node].bounds = calcBBox(nodes, nodes[omt.node])
              /\ \A k \in 1..Len(nodes[omt.node].children) :
                     ContainsRectf(nodes[omt.node].bounds,
                                   nodes[nodes[omt.node].children[k]].bounds)
              /\ ItemsUnder(nodes, omt.node) = Range(omt.items)

\* build has returned after two workers appended four subtrees, the first
\* of them built by the second worker
BuildReturnedInterleaved ==
    /\ omt.main = "returned"
    /\ Cardinality(DOMAIN omt.pc) = 2
    /\ Len(nodes[omt.node].children) = 4
    /\ nodes[nodes[omt.node].children[1]].items[1] = omt.items[omt.grpX + 1]

\* All(): the stored items, one entry per stored copy
All(T) == addAllItemsN(T.nodes, T.root, <<>>, maxInt)

\* the number of entries of a list of items that are the item
Copies(all, item) == Cardinality({k \in 1..Len(all) : all[k] = item})

\* C13: when an item is stored twice, so that two stored entries match the
\* query of Remove by identity and by the equality of bounds, one Remove
\* removes exactly one of them: Size() decreases by 1 and every other stored
\* entry remains.
RemoveTakesOneOfSeveral ==
    \A item \in Stored : \A equalsFn \in {"nil", "bounds"} :
        With(Insert(Tree, item), LAMBDA twice :
        With(Remove(twice, item, equalsFn), LAMBDA after :
        With(<<All(twice), All(after)>>, LAMBDA all :
            /\ Copies(all[1], item) = 2
            /\ Size(after) = Len(all[1]) - 1
            /\ Len(all[1]) = Size(twice)
            /\ \A other \in Items :
                   Copies(all[2], other) =
                       Copies(all[1], other) - (IF other = item THEN 1 ELSE 0))))

\* the second copy of an item went into another leaf than the first, in a
\* tree of three levels
TwoCopiesInTwoLeaves ==
    /\ nodes[root].height = 3
    /\ \E item \in Stored :
           With(Insert(Tree, item), LAMBDA twice :
               /\ Copies(All(twice), item) = 2
               /\ \A id \in DOMAIN twice.nodes :
                      Copies(twice.nodes[id].items, item) <= 1)

\* C14: NearestNeighborWithin(p, d) returns nil when the tree is empty or
\* every stored item is farther than d from p, and an item it returns is
\* stored and has a squared distance to p strictly less than d * d.
NearestWithinIsWithin ==
    \A pos \in Positions : \A d \in Distances :
        With(NearestNeighborWithin(Tree, pos, d), LAMBDA nearest :
            /\ (\A item \in Stored : SquarePointDistance(bboxFn(item), pos) > d * d)
                   => nearest = nil
            /\ nearest # nil
                   => /\ nearest \in Stored
                      /\ SquarePointDistance(bboxFn(nearest), pos) < d * d)

\* in a tree of two levels or more, one call returns an item, one returns nil
\* because every item is farther, and one returns nil although an item is at
\* the distance d exactly
NearestWithinBothWays ==
    /\ nodes[root].height >= 2
    /\ \E pos \in Positions : \E d \in Distances :
           NearestNeighborWithin(Tree, pos, d) # nil
    /\ \E pos \in Positions : \E d \in Distances :
           /\ d > 0
           /\ \A item \in Stored : SquarePointDistance(bboxFn(item), pos) > d * d
           /\ NearestNeighborWithin(Tree, pos, d) = nil
    /\ \E pos \in Positions : \E d \in Distances :
           /\ d > 0
           /\ \E item \in Stored : SquarePointDistance(bboxFn(item), pos) = d * d
           /\ NearestNeighborWithin(Tree, pos, d) = nil

\* C15: as a set, the result of SearchFiltered(area, mustCover, filter) is
\* the items of Search(area, mustCover) that the filter accepts; an item the
\* filter rejects is never returned.
SearchFilteredIsFilteredSearch ==
    \A area \in Queries : \A mustCover \in BOOLEAN :
        With(Range(Search(Tree, area, mustCover)), LAMBDA found :
            \A filter \in Filters :
                Range(SearchFiltered(Tree, area, mustCover, filter)) = found \cap filter)

\* a child of the root lies fully inside the search area and holds an item
\* the filter rejects and an item it accepts
FilteredInsideContainedSubtree ==
    /\ ~nodes[root].leaf
    /\ \E area \in Queries : \E filter \in Filters :
       \E k \in 1..Len(nodes[root].children) :
           With(nodes[root].children[k], LAMBDA child :
               /\ Intersects(Normalize(area), nodes[root].bounds)
               /\ Intersects(Normalize(area), nodes[child].bounds)
               /\ ContainsRectf(Normalize(area), nodes[child].bounds)
               /\ ItemsUnder(nodes, child) \ filter # {}
               /\ ItemsUnder(nodes, child) \cap filter # {}
               /\ Range(SearchFiltered(Tree, area, FALSE, filter)) \cap ItemsUnder(nodes, child) # {})

\* ------------------------------------------------------------ quickselect on its own

\* the longest slice quickselect is called with
MaxSelect == 5

\* the items of the slices: their values on the x axis are 0, 0, 1, 1, 5, 3
SelectItems == {1, 7, 2, 12, 9, 10}

\* the slices: every order of every choice of 1..MaxSelect of the items
SelectSlices ==
    {a \in UNION {[1..k -> SelectItems] : k \in 1..MaxSelect} :
        \A i, j \in DOMAIN a : i # j => a[i] # a[j]}

InitQuickselect ==
    /\ nodes = (1 :> newNode)
    /\ root = 1
    /\ added = {}
    /\ removedHits = 0
    /\ rt = rtInit
    /\ omt = omtInit
    /\ \E a \in SelectSlices : \E n \in 0..(Len(a) - 1) :
           call = [op |-> "quickselect", pc |-> "called", orig |-> a, a |-> a, n |-> n]

\* quickselect(itemsByMinX(a), n) with any of its random guesses
QuickselectCall ==
    /\ call.op = "quickselect" /\ call.pc = "called"
    /\ \E a \in quickselect(call.a, 1, call.n) :
           call' = [call EXCEPT !.a = a, !.pc = "returned"]
    /\ UNCHANGED <<nodes, root, added, removedHits, rt, omt>>

NextQuickselect == QuickselectCall

SpecQuickselect == InitQuickselect /\ [][NextQuickselect]_vars

\* the value quickselect compares: the x minimum of the item at a 0-based index
SelectValue(a, i) == bboxFn(a[i + 1]).Min[1]

\* C16: after quickselect(a, n) of a non-empty a with 0 <= n < len(a), for
\* every random choice of the pivots, the elements before index n are <= a[n],
\* the elements after it, the last one included, are >= a[n], and a is a
\* permutation of the original slice.
QuickselectPartitions ==
    (call.op = "quickselect" /\ call.pc = "returned")
        => /\ \A i \in 0..(call.n - 1) :
                  SelectValue(call.a, i) <= SelectValue(call.a, call.n)
           /\ \A i \in (call.n + 1)..(Len(call.a) - 1) :
                  SelectValue(call.a, i) >= SelectValue(call.a, call.n)
           /\ Len(call.a) = Len(call.orig)
           /\ \A item \in SelectItems : Copies(call.a, item) = Copies(call.orig, item)

\* a slice of five comes back reordered around its third element; the
\* smallest value was last in the original and the value of the third is there twice
QuickselectMovedLast ==
    /\ call.op = "quickselect" /\ call.pc = "returned"
    /\ Len(call.a) = 5 /\ call.n = 2
    /\ call.a # call.orig
    /\ \A i \in 0..3 : SelectValue(call.orig, 4) < SelectValue(call.orig, i)
    /\ \E i \in {0, 1, 3, 4} : SelectValue(call.a, i) = SelectValue(call.a, 2)

WellFormedNode(nod, isRoot) ==
    /\ nod.leaf => Len(nod.children) = 0
    /\ ~nod.leaf => (Len(nod.items) = 0 /\ Len(nod.children) >= 1)
    /\ ~isRoot => entryCount(nod) >= 1

\* every node under the root of a tree is well formed
WellFormed(T) ==
    With(Preorder(T.nodes, T.root), LAMBDA order :
        \A k \in 1..Len(order) : WellFormedNode(T.nodes[order[k]], order[k] = T.root))

\* C18: after every public operation every node is well formed: a leaf has
\* no children, an internal node has no items and at least one child, no
\* node other than the root is empty and an internal root is not empty.  The
\* same holds after one more Remove of each of the removal targets.
NodesWellFormed ==
    /\ WellFormed(Tree)
    /\ \A item \in RemoveTargets : WellFormed(Remove(Tree, item, "nil"))

\* a Remove takes the only item of a leaf in a tree of two levels or more, and
\* the tree has fewer nodes afterwards
EmptiedLeafDropped ==
    /\ nodes[root].height >= 2
    /\ \E item \in RemoveTargets : \E id \in DOMAIN nodes :
           /\ nodes[id].items = <<item>>
           /\ With(Canon(Remove(Tree, item, "nil")), LAMBDA after :
                  /\ Cardinality(DOMAIN after.nodes) < Cardinality(DOMAIN nodes)
                  /\ WellFormed(after))

\* the enlargement chooseSubtree computes for a child
Enlargement(ns, bbox, child) == enlargedArea(bbox, ns[child].bounds) - Area(ns[child].bounds)

\* the chosen child has the least enlargement of the children of the parent
\* and, among the children with that enlargement, the least area
ChosenIsBest(ns, bbox, parent, chosen) ==
    \A k \in 1..Len(ns[parent].children) :
        With(ns[parent].children[k], LAMBDA child :
            \/ Enlargement(ns, bbox, chosen) < Enlargement(ns, bbox, child)
            \/ /\ Enlargement(ns, bbox, chosen) = Enlargement(ns, bbox, child)
               /\ Area(ns[chosen].bounds) <= Area(ns[child].bounds))

\* C19: at every step of the descent of chooseSubtree, for the bounds of
\* every item, the chosen child has the least enlargement and, among the
\* children with that enlargement, the least area.
ChooseSubtreeIsBest ==
    \A item \in Items :
        With(chooseSubtree(Tree, bboxFn(item), nodes[root].height - 1), LAMBDA cs :
            \A k \in 1..(Len(cs.path) - 1) :
                ChosenIsBest(nodes, bboxFn(item), cs.path[k], cs.path[k + 1]))

\* ------------------------------------------------------------ the split of a node on its own

\* the largest number of entries of an overflowed node: maxEntries + 1 for
\* the trees of New(bounds, 4) and New(bounds, 5), both with minEntries 2
MaxSplit == 6

\* the items of a set in the order of their insertion, first to last or last
\* to first
RECURSIVE Ascending(_)
Ascending(S) ==
    IF S = {} THEN <<>>
    ELSE With(CHOOSE m \in S : \A x \in S : m <= x, LAMBDA m : <<m>> \o Ascending(S \ {m}))

Descending(S) == [k \in 1..Cardinality(S) |-> Ascending(S)[Cardinality(S) + 1 - k]]

\* the overflowed leaves: every choice of maxEntries + 1 items and more, in
\* the two orders
SplitLeaves ==
    UNION {{Ascending(S), Descending(S)} :
              S \in {S \in SUBSET Items : /\ Cardinality(S) >= maxEntries + 1
                                          /\ Cardinality(S) <= MaxSplit}}

InitSplit ==
    /\ nodes = (1 :> newNode)
    /\ root = 1
    /\ added = {}
    /\ removedHits = 0
    /\ rt = rtInit
    /\ omt = omtInit
    /\ \E a \in SplitLeaves :
           call = [op |-> "split", pc |-> "called", count |-> Len(a), idx |-> 0,
                   node |-> [newNode EXCEPT !.items = a]]

\* the first two steps of split: chooseSplitAxis sorts the entries of the
\* node, chooseSplitIndex picks the index
SplitCall ==
    /\ call.op = "split" /\ call.pc = "called"
    /\ \E sorted \in {chooseSplitAxis(nodes, call.node, minEntries, call.count)} :
       \E splitIndex \in {chooseSplitIndex(nodes, sorted, minEntries, call.count)} :
           call' = [call EXCEPT !.node = sorted, !.idx = splitIndex, !.pc = "returned"]
    /\ UNCHANGED <<nodes, root, added, removedHits, rt, omt>>

NextSplit == SplitCall

SpecSplit == InitSplit /\ [][NextSplit]_vars

\* the two measures chooseSplitIndex takes of the split at index i
SplitOverlap(nod, i, count) ==
    intersectionArea(calcSubBBox(nodes, nod, 0, i), calcSubBBox(nodes, nod, i, count))

SplitArea(nod, i, count) ==
    Area(calcSubBBox(nodes, nod, 0, i)) + Area(calcSubBBox(nodes, nod, i, count))

\* C20: the index chooseSplitIndex returns lies in [minEntries, count -
\* minEntries] and no index of that range has a smaller
\* intersectionArea(bbox1, bbox2), nor the same one with a smaller
\* area(bbox1) + area(bbox2).
SplitIndexIsBest ==
    (call.op = "split" /\ call.pc = "returned")
        => /\ call.idx \in minEntries..(call.count - minEntries)
           /\ \A i \in minEntries..(call.count - minEntries) :
                  \/ SplitOverlap(call.node, call.idx, call.count)
                         < SplitOverlap(call.node, i, call.count)
                  \/ /\ SplitOverlap(call.node, call.idx, call.count)
                            = SplitOverlap(call.node, i, call.count)
                     /\ SplitArea(call.node, call.idx, call.count)
                            <= SplitArea(call.node, i, call.count)

\* of three candidates the middle one is returned, with a smaller sum of
\* areas than the first and than the last
SplitIndexInTheMiddle ==
    /\ call.op = "split" /\ call.pc = "returned"
    /\ call.count = MaxSplit
    /\ call.idx > minEntries /\ call.idx < call.count - minEntries
    /\ SplitArea(call.node, call.idx, call.count) < SplitArea(call.node, minEntries, call.count)
    /\ SplitArea(call.node, call.idx, call.count)
           < SplitArea(call.node, call.count - minEntries, call.count)

\* ------------------------------------------------------------ groupItems on its own

\* the longest slice groupItems is called with
MaxGroup == 5

\* the items of the slices: their minima are (0,0), (1,0), (4,2), (0,4), (3,6)
GroupItems == {1, 2, 6, 7, 10}

\* the slices: every order of every choice of 1..MaxGroup of the items
GroupSlices ==
    {a \in UNION {[1..k -> GroupItems] : k \in 1..MaxGroup} :
        \A i, j \in DOMAIN a : i # j => a[i] # a[j]}

\* the group sizes: grpY and grpX of build are 2 at least
GroupSizes == {2, 3}

InitGroup ==
    /\ nodes = (1 :> newNode)
    /\ root = 1
    /\ added = {}
    /\ removedHits = 0
    /\ rt = rtInit
    /\ omt = omtInit
    /\ \E a \in GroupSlices : \E leftIdx \in 0..(Len(a) - 1) :
       \E rightIdx \in leftIdx..(Len(a) - 1) :
       \E groupSize \in GroupSizes : \E axis \in 1..2 :
           call = [op |-> "groupItems", pc |-> "called", orig |-> a, items |-> a,
                   leftIdx |-> leftIdx, rightIdx |-> rightIdx,
                   groupSize |-> groupSize, axis |-> axis]

\* groupItems(items, leftIdx, rightIdx, groupSize, xDim) with any of the
\* random guesses of quickselect
GroupCall ==
    /\ call.op = "groupItems" /\ call.pc = "called"
    /\ \E a \in groupItems(call.items, call.leftIdx, call.rightIdx, call.groupSize, call.axis) :
           call' = [call EXCEPT !.items = a, !.pc = "returned"]
    /\ UNCHANGED <<nodes, root, added, removedHits, rt, omt>>

NextGroup == GroupCall

SpecGroup == InitGroup /\ [][NextGroup]_vars

\* the coordinate groupItems sorts by: the minimum on the axis of the item at
\* a 0-based index
GroupValue(a, axis, i) == bboxFn(a[i + 1]).Min[axis]

\* C21: after groupItems the positions leftIdx..rightIdx fall into
\* consecutive groups of groupSize positions starting at leftIdx, every item
\* of an earlier group has a coordinate <= that of every item of a later
\* group, and the items outside leftIdx..rightIdx are where they were.
GroupsAreOrdered ==
    (call.op = "groupItems" /\ call.pc = "returned")
        => /\ \A p, q \in (call.leftIdx)..(call.rightIdx) :
                  ((p - call.leftIdx) \div call.groupSize
                       < (q - call.leftIdx) \div call.groupSize)
                      => GroupValue(call.items, call.axis, p)
                             <= GroupValue(call.items, call.axis, q)
           /\ \A p \in 0..(Len(call.items) - 1) :
                  (p < call.leftIdx \/ p > call.rightIdx)
                      => call.items[p + 1] = call.orig[p + 1]

\* ------------------------------------------------------------ the traversal of Remove step by step

\* the bulk loads that build the trees Remove is called on, in their order;
\* an item may be loaded more than once
RemoveBatches ==
    << <<1, 12, 8, 13, 10>>, <<7, 8, 10, 12, 13>>, <<5, 7, 8, 10, 12>>,
       <<1, 7, 8, 10, 13>>, <<1, 12, 8, 13, 10>> >>

\* the items Remove is called with: 6, 9 and 11 are in no batch
RemoveItems == {1, 13, 6, 9, 11}

\* the locals of Remove before its loop
removeInit(T) ==
    [nod |-> T.root, path |-> <<>>, childIndexes |-> <<>>, parent |-> nil,
     childIdx |-> 0, goingUp |-> FALSE]

\* No call of Remove yet: loads counts the bulk loads done, strayed tells
\* that a pass has gone up with one node left on the path that is not the
\* root, so that parent became the root although the node popped is not its
\* child
InitRemove ==
    /\ nodes = (1 :> newNode)
    /\ root = 1
    /\ added = {}
    /\ removedHits = 0
    /\ rt = rtInit
    /\ omt = omtInit
    /\ call = [op |-> "Remove", pc |-> "idle", loads |-> 0, item |-> nil,
               st |-> removeInit(Tree), strayed |-> FALSE]

\* the next bulk load, with any outcome of build
RemoveLoad ==
    /\ call.op = "Remove" /\ call.pc = "idle"
    /\ call.loads < Len(RemoveBatches)
    /\ \E T0 \in BulkLoad(Tree, RemoveBatches[call.loads + 1]) : \E T \in {Canon(T0)} :
           /\ nodes' = T.nodes
           /\ root' = T.root
    /\ call' = [call EXCEPT !.loads = @ + 1]
    /\ UNCHANGED <<added, removedHits, rt, omt>>

\* Remove(item, nil) enters its loop
RemoveCall ==
    /\ call.op = "Remove" /\ call.pc = "idle"
    /\ \E item \in RemoveItems :
           call' = [call EXCEPT !.pc = "loop", !.item = item, !.st = removeInit(Tree)]
    /\ UNCHANGED <<nodes, root, added, removedHits, rt, omt>>

\* one pass through the loop of Remove: the loop ends, or the item is found,
\* removed and the path condensed, or the traversal moves on
RemoveStep ==
    /\ call.op = "Remove" /\ call.pc = "loop"
    /\ IF call.st.nod = nil /\ Len(call.st.path) = 0
       THEN /\ call' = [call EXCEPT !.pc = "returned"]
            /\ UNCHANGED <<nodes, root>>
       ELSE \E it \in {removeIter(Tree, call.item, "nil", call.st)} :
                IF it.hit > 0
                THEN \E T \in {Canon(condense(
                                   [Tree EXCEPT !.nodes[it.up.nod].items = RemoveAt(@, it.hit)],
                                   Append(it.up.path, it.up.nod), Len(it.up.path) + 1))} :
                         /\ nodes' = T.nodes
                         /\ root' = T.root
                         /\ call' = [call EXCEPT !.pc = "returned", !.st = it.up]
                ELSE /\ call' = [call EXCEPT
                                     !.st = it.st,
                                     !.strayed = @ \/ (/\ call.st.nod = nil
                                                       /\ Len(it.up.path) = 1
                                                       /\ it.up.path[1] # root)]
                     /\ UNCHANGED <<nodes, root>>
    /\ UNCHANGED <<added, removedHits, rt, omt>>

NextRemove == RemoveLoad \/ RemoveCall \/ RemoveStep

SpecRemove == InitRemove /\ [][NextRemove]_vars

\* the loop of Remove is taken as long as it can be
SpecRemoveFair == SpecRemove /\ WF_vars(RemoveStep)

\* C22: Remove terminates on every tree and for every item: the traversal
\* reaches the end of its loop, with the current node nil and the path empty,
\* or returns after a match.
RemoveTerminates == (call.pc = "loop") ~> (call.pc = "returned")

\* Remove has returned without a match from a tree of four levels, after a
\* pass in which parent fell back to the root under a path that does not
\* start at the root
RemoveReturnedAfterStraying ==
    /\ call.op = "Remove" /\ call.pc = "returned"
    /\ nodes[root].height = 4
    /\ call.strayed
    /\ call.item \notin Stored
    /\ call.st.nod = nil /\ Len(call.st.path) = 0

\* ---------------------------------------------------------------------------
\* minMaxDist on its own
\* ---------------------------------------------------------------------------

\* the largest coordinate of the small rectangles minMaxDist is called with
MaxCoord == 2

\* the rectangles of TestMinMaxDist
TestMinMaxDistRects ==
    << Rect(-1, -1, 4, 6), Rect(10, -4, 14, 20), Rect(-15, 0, -10, 8),
       Rect(-13, -16, -3, -9) >>

\* the normalized rectangles minMaxDist is called with
MinMaxRects ==
    {TestMinMaxDistRects[i] : i \in 1..Len(TestMinMaxDistRects)}
    \cup {rc \in [Min : ((-1)..MaxCoord) \X ((-1)..MaxCoord),
                  Max : ((-1)..MaxCoord) \X ((-1)..MaxCoord)] :
             rc.Min[1] <= rc.Max[1] /\ rc.Min[2] <= rc.Max[2]}

\* the positions minMaxDist is called with: inside, outside, on the faces and
\* on the center lines of the rectangles
MinMaxPositions == ((-2)..(MaxCoord + 1)) \X ((-2)..(MaxCoord + 1))

InitMinMaxDist ==
    /\ nodes = (1 :> newNode) /\ root = 1 /\ added = {} /\ removedHits = 0
    /\ rt = rtInit /\ omt = omtInit
    /\ \E pos \in MinMaxPositions : \E r \in MinMaxRects :
           call = [op |-> "minMaxDist", pc |-> "called", pos |-> pos, r |-> r, mmd |-> 0]

\* mmd := minMaxDist(pos, r)
MinMaxDistCall ==
    /\ call.op = "minMaxDist" /\ call.pc = "called"
    /\ call' = [call EXCEPT !.pc = "returned", !.mmd = minMaxDist(call.pos, call.r)]
    /\ UNCHANGED <<nodes, root, added, removedHits, rt, omt>>

NextMinMaxDist == MinMaxDistCall

SpecMinMaxDist == InitMinMaxDist /\ [][NextMinMaxDist]_vars

\* the distance of pos to a face of r on axis k
FaceDist(pos, face, k) == IF pos[k] >= face[k] THEN pos[k] - face[k] ELSE face[k] - pos[k]

\* the square of the distance of pos to the nearer face of r on axis k
NearerFaceSq(pos, r, k) ==
    With(MinI(FaceDist(pos, r.Min, k), FaceDist(pos, r.Max, k)), LAMBDA d : d * d)

\* the square of the distance of pos to the farther face of r on axis k
FartherFaceSq(pos, r, k) ==
    With(MaxI(FaceDist(pos, r.Min, k), FaceDist(pos, r.Max, k)), LAMBDA d : d * d)

\* the values TestMinMaxDist expects for pos = (0, 0)
TestMinMaxDistExpected == <<17, 212, 164, 250>>

\* C25: for every position and every normalized rectangle, minMaxDist is the
\* minimum over the two axes k of the squared distance to the nearer face on k
\* plus the squared distance to the farther face on the other axis; for
\* pos = (0, 0) it is 17, 212, 164 and 250 for the rectangles of TestMinMaxDist.
MinMaxDistIsMinOfMax ==
    (call.op = "minMaxDist" /\ call.pc = "returned") =>
        /\ call.mmd = MinI(NearerFaceSq(call.pos, call.r, 1) + FartherFaceSq(call.pos, call.r, 2),
                           NearerFaceSq(call.pos, call.r, 2) + FartherFaceSq(call.pos, call.r, 1))
        /\ \A i \in 1..Len(TestMinMaxDistRects) :
               (call.pos = <<0, 0>> /\ call.r = TestMinMaxDistRects[i])
                   => call.mmd = TestMinMaxDistExpected[i]

\* minMaxDist has returned 164 for the rectangle left of (0, 0), whose nearer
\* face is the maximum on the first axis and the minimum on the second
MinMaxDistLeftOfPos ==
    /\ call.op = "minMaxDist" /\ call.pc = "returned"
    /\ call.pos = <<0, 0>> /\ call.r = TestMinMaxDistRects[3]
    /\ call.mmd = 164

\* ---------------------------------------------------------------------------
\* containment of the cached bounds
\* ---------------------------------------------------------------------------

\* the cached bounds of the node contain the bounds of each of its entries
ContainsEntries(ns, id) ==
    /\ \A k \in 1..Len(ns[id].children) :
           ContainsRectf(ns[id].bounds, ns[ns[id].children[k]].bounds)
    /\ \A k \in 1..Len(ns[id].items) :
           ContainsRectf(ns[id].bounds, bboxFn(ns[id].items[k]))

MaxStepInserts == 5
MaxStepLoads == 5

\* the items Insert is called with
StepItems == {2, 14}

\* Insert and insertNode up to the call of splitNodes: the tree with the new
\* entry appended to the chosen node, the insertion path, the level and the bbox
insertBegin(T, item) ==
    With(bboxFn(item), LAMBDA bbox :
    With(T.nodes[T.root].height - 1, LAMBDA level :
    With(chooseSubtree(T, bbox, level), LAMBDA cs :
        [T |-> [T EXCEPT !.nodes[cs.node].items = Append(@, item),
                         !.nodes[cs.node].bounds = extend(@, bbox)],
         path |-> cs.path, level |-> level, bbox |-> bbox])))

insertNodeBegin(T, id, level) ==
    With(T.nodes[id].bounds, LAMBDA bbox :
    With(chooseSubtree(T, bbox, level), LAMBDA cs :
        [T |-> [T EXCEPT !.nodes[cs.node].children = Append(@, id),
                         !.nodes[cs.node].bounds = extend(@, bbox)],
         path |-> cs.path, level |-> level, bbox |-> bbox]))

\* the entry counts of the nodes of a path
pathCounts(T, path) == [k \in 1..Len(path) |-> entryCount(T.nodes[path[k]])]

stepInit ==
    [op |-> "Insert", pc |-> "idle", inserts |-> 0, loads |-> 0, kind |-> "none",
     path |-> <<>>, level |-> 0, top |-> 0, bbox |-> noBounds, splits |-> 0,
     before |-> newNode, node |-> nil, newNode |-> nil, counts |-> <<>>]

InitSteps ==
    /\ nodes = (1 :> newNode)
    /\ root = 1
    /\ added = {}
    /\ removedHits = 0
    /\ rt = rtInit
    /\ omt = omtInit
    /\ call = stepInit

\* Insert(item) up to the call of splitNodes
StepInsert ==
    /\ call.op = "Insert" /\ call.pc = "idle"
    /\ call.inserts < MaxStepInserts
    /\ \E item \in StepItems : \E b \in {insertBegin(Tree, item)} :
           /\ nodes' = b.T.nodes
           /\ root' = b.T.root
           /\ call' = [call EXCEPT !.pc = "splitNodes", !.inserts = @ + 1, !.kind = "Insert",
                                   !.path = b.path, !.level = b.level, !.top = b.level,
                                   !.bbox = b.bbox, !.splits = 0, !.counts = <<>>]
    /\ UNCHANGED <<added, removedHits, rt, omt>>

\* BulkLoad(items): to its end when the new tree becomes the root or is joined
\* with the root by splitRoot, up to the call of splitNodes in insertNode otherwise
StepBulkLoad ==
    /\ call.op = "Insert" /\ call.pc = "idle"
    /\ call.loads < MaxStepLoads /\ call.loads < Len(RemoveBatches)
    /\ \E b \in build(nodes, RemoveBatches[call.loads + 1], 0,
                      Len(RemoveBatches[call.loads + 1]) - 1, 0) :
       \E T1 \in {[Tree EXCEPT !.nodes = b.ns]} :
           IF entryCount(T1.nodes[T1.root]) = 0
           THEN /\ \E T \in {Canon([T1 EXCEPT !.root = b.id])} :
                       nodes' = T.nodes /\ root' = T.root
                /\ call' = [call EXCEPT !.loads = @ + 1, !.kind = "BulkLoad", !.splits = 0,
                                        !.counts = <<>>]
           ELSE IF T1.nodes[T1.root].height = T1.nodes[b.id].height
           THEN /\ \E T \in {Canon(splitRoot(T1, T1.root, b.id))} :
                       nodes' = T.nodes /\ root' = T.root
                /\ call' = [call EXCEPT !.loads = @ + 1, !.kind = "BulkLoad", !.splits = 0,
                                        !.counts = <<>>]
           ELSE \E n \in {IF T1.nodes[T1.root].height < T1.nodes[b.id].height
                          THEN insertNodeBegin([T1 EXCEPT !.root = b.id], T1.root,
                                   T1.nodes[b.id].height - T1.nodes[T1.root].height - 1)
                          ELSE insertNodeBegin(T1, b.id,
                                   T1.nodes[T1.root].height - T1.nodes[b.id].height - 1)} :
                /\ nodes' = n.T.nodes
                /\ root' = n.T.root
                /\ call' = [call EXCEPT !.pc = "splitNodes", !.loads = @ + 1,
                                        !.kind = "insertNode", !.path = n.path,
                                        !.level = n.level, !.top = n.level, !.bbox = n.bbox,
                                        !.splits = 0, !.counts = <<>>]
    /\ UNCHANGED <<added, removedHits, rt, omt>>

\* one pass through the loop of splitNodes
StepSplit ==
    /\ call.op = "Insert" /\ call.pc = "splitNodes"
    /\ IF call.level < 0 \/ entryCount(nodes[call.path[call.level + 1]]) <= maxEntries
       THEN /\ call' = [call EXCEPT !.pc = "adjust"]
            /\ UNCHANGED <<nodes, root>>
       ELSE /\ \E T \in {split(Tree, call.path, call.level)} :
                   nodes' = T.nodes /\ root' = T.root
            /\ call' = [call EXCEPT !.level = @ - 1, !.splits = @ + 1,
                                    !.before = nodes[call.path[call.level + 1]],
                                    !.node = call.path[call.level + 1],
                                    !.newNode = FreshId(nodes)]
    /\ UNCHANGED <<added, removedHits, rt, omt>>

\* adjustParentBBoxes and the return
StepAdjust ==
    /\ call.op = "Insert" /\ call.pc = "adjust"
    /\ \E T1 \in {adjustParentBBoxes(Tree, call.path, call.bbox, call.top)} :
       \E T \in {Canon(T1)} :
           /\ nodes' = T.nodes
           /\ root' = T.root
           /\ call' = [call EXCEPT !.pc = "idle", !.counts = pathCounts(T1, call.path),
                                   !.path = <<>>, !.before = newNode, !.node = nil,
                                   !.newNode = nil]
    /\ UNCHANGED <<added, removedHits, rt, omt>>

NextSteps == StepInsert \/ StepBulkLoad \/ StepSplit \/ StepAdjust

SpecSteps == InitSteps /\ [][NextSteps]_vars

\* how often x occurs in the sequence
Occurrences(seq, x) == Cardinality({k \in 1..Len(seq) : seq[k] = x})

\* the entries of a and b together are exactly the entries of whole
SameEntries(whole, a, b) ==
    /\ Len(whole.items) = Len(a.items) + Len(b.items)
    /\ Len(whole.children) = Len(a.children) + Len(b.children)
    /\ \A k \in 1..Len(whole.items) :
           Occurrences(whole.items, whole.items[k])
               = Occurrences(a.items, whole.items[k]) + Occurrences(b.items, whole.items[k])
    /\ \A k \in 1..Len(whole.children) :
           Occurrences(whole.children, whole.children[k])
               = Occurrences(a.children, whole.children[k])
                     + Occurrences(b.children, whole.children[k])

\* C24: whenever Insert or insertNode splits an overflowing node, which holds
\* maxEntries + 1 entries, the node and its new sibling each end with at least
\* minEntries and at most maxEntries entries, both keep the height and the
\* leaf flag, and together they hold exactly the entries of the node, none
\* lost and none twice; after Insert has returned no node of the insertion
\* path holds more than maxEntries entries.
SplitKeepsEntries ==
    /\ (call.op = "Insert" /\ call.pc \in {"splitNodes", "adjust"} /\ call.splits > 0) =>
           /\ entryCount(call.before) = maxEntries + 1
           /\ \A id \in {call.node, call.newNode} :
                  /\ entryCount(nodes[id]) >= minEntries
                  /\ entryCount(nodes[id]) <= maxEntries
                  /\ nodes[id].height = call.before.height
                  /\ nodes[id].leaf = call.before.leaf
           /\ SameEntries(call.before, nodes[call.node], nodes[call.newNode])
    /\ (call.op = "Insert" /\ call.pc = "idle" /\ call.kind = "Insert") =>
           \A k \in 1..Len(call.counts) : call.counts[k] <= maxEntries

\* Insert has split a leaf and then its overflowing parent
SplitLeafAndParent ==
    /\ call.op = "Insert" /\ call.pc = "splitNodes" /\ call.kind = "Insert"
    /\ call.splits = 2
    /\ ~call.before.leaf
    /\ entryCount(nodes[call.node]) + entryCount(nodes[call.newNode]) = maxEntries + 1

====
